---- MODULE Spec2Model ----
(***************************************************************************)
(* Model of the conversion routing core of fco.tools: the traversion graph *)
(* (src/src/TraversionGraph.ts), its priority queue                        *)
(* (src/src/PriorityQueue.ts) and the conversion executor                  *)
(* (src/unnamed/part_002).                                                  *)
(*                                                                         *)
(* Costs are fixed-point numbers in hundredths (1.4 is 140), so that the   *)
(* additions and the lossy multiplication of costFunction are exact.       *)
(* MIME strings are pairs <<major, sub>>, so that mime.split("/")[0] is    *)
(* the first component. JavaScript's undefined handler / category is the   *)
(* empty string or the kind "none". Indices are 0-based as in the source;  *)
(* sequence positions are index + 1.                                       *)
(***************************************************************************)
EXTENDS Integers, Sequences, FiniteSets, TLC

VARIABLES
    handlers,               \* the handler list (name, supportedFormats, ready)
    supportedFormatCache,   \* Map<string, FileFormat[]> in insertion order
    arrays,                 \* heap of the category arrays formats refer to
    categoryChangeCosts,    \* TraversionGraph.categoryChangeCosts
    categoryAdaptiveCosts,  \* TraversionGraph.categoryAdaptiveCosts
    disableSafeChecks,      \* TraversionGraph.disableSafeChecks
    nodes,                  \* TraversionGraph.nodes
    edges,                  \* TraversionGraph.edges
    search,                 \* the state of one searchPath generator
    mutations,              \* history: cost-table operations applied so far
    built,                  \* history: the arguments of the last init()
    data,                   \* the value a getData() call returned
    exec,                   \* the state of one tryConvertByTraversing call
    pq,                     \* a PriorityQueue used on its own
    registry                \* the registry's module state and the page around it

vars == <<handlers, supportedFormatCache, arrays, categoryChangeCosts,
          categoryAdaptiveCosts, disableSafeChecks, nodes, edges,
          search, mutations, built, data, exec, pq, registry>>

-----------------------------------------------------------------------------
(* Tunable constants, in hundredths.                                       *)

DEPTH_COST == 100
DEFAULT_CATEGORY_CHANGE_COST == 60
LOSSY_COST_MULTIPLIER == 140
HANDLER_PRIORITY_COST == 20
FORMAT_PRIORITY_COST == 5

(* Bounds of the model.                                                    *)
MaxMutations == 1
MaxDataWrites == 1
MaxAdds == 4
MaxItemCost == 2
MaxReloads == 1

-----------------------------------------------------------------------------
(* Generic helpers for JavaScript array methods.                           *)

\* Array.prototype.indexOf: the 0-based index of the first x, or -1.
IndexOf(seq, x) ==
    IF \E i \in 1..Len(seq) : seq[i] = x
    THEN (CHOOSE i \in 1..Len(seq) : seq[i] = x /\ \A j \in 1..(i-1) : seq[j] # x) - 1
    ELSE -1

\* Array.prototype.findIndex: the 0-based index of the first element satisfying P.
FindIndex(seq, P(_)) ==
    IF \E i \in 1..Len(seq) : P(seq[i])
    THEN (CHOOSE i \in 1..Len(seq) : P(seq[i]) /\ \A j \in 1..(i-1) : ~P(seq[j])) - 1
    ELSE -1

Includes(seq, x) == \E i \in 1..Len(seq) : seq[i] = x

MinOf(S) == CHOOSE x \in S : \A y \in S : x <= y

\* String.prototype.toLowerCase on the handler names and extensions that occur.
ToLowerCase(s) ==
    CASE s = "canvasToBlob" -> "canvastoblob"
      [] s = "FFmpeg" -> "ffmpeg"
      [] s = "PNG" -> "png"
      [] OTHER -> s

-----------------------------------------------------------------------------
(* Formats.  category: kind "none" (undefined), "tag" (one string) or      *)
(* "list" (an array, held by reference in the heap `arrays`).              *)

NoCategory == [kind |-> "none", tag |-> "", ref |-> 0]
Tag(t) == [kind |-> "tag", tag |-> t, ref |-> 0]
List(r) == [kind |-> "list", tag |-> "", ref |-> r]

\* FormatDefinition.supported(ref, from, to, lossless): the definition's fields
\* spread into a new object (a category array is shared, not copied).
Supported(def, from, to, lossless) ==
    [format |-> def.format, mime |-> def.mime, category |-> def.category,
     from |-> from, to |-> to, lossless |-> lossless]

PNG  == [format |-> "png",  mime |-> <<"image", "png">>,  category |-> Tag("image")]
JPEG == [format |-> "jpeg", mime |-> <<"image", "jpeg">>, category |-> Tag("image")]
SVG  == [format |-> "svg",  mime |-> <<"image", "svg+xml">>, category |-> List(1)]
GIF  == [format |-> "gif",  mime |-> <<"image", "gif">>,  category |-> List(2)]
MP3  == [format |-> "mp3",  mime |-> <<"audio", "mpeg">>, category |-> Tag("audio")]
WAV  == [format |-> "wav",  mime |-> <<"audio", "wav">>,  category |-> Tag("audio")]
MP4  == [format |-> "mp4",  mime |-> <<"video", "mp4">>,  category |-> Tag("video")]
TEXT == [format |-> "text", mime |-> <<"text", "plain">>, category |-> Tag("text")]
\* Formats declared by handlers without a category (ffmpeg's QuickTime Audio).
QTA  == [format |-> "qta",  mime |-> <<"video", "quicktime">>, category |-> NoCategory]

\* The heap at start: the category arrays of CommonFormats.SVG and CommonFormats.GIF.
InitArrays == << <<"image", "vector", "document">>, <<"image", "video">> >>

\* `format.category || format.mime.split("/")[0]` with a list dereferenced:
\* a string (one tag or the MIME's major part) or an array.
CategoryOrMime(f) ==
    IF f.category.kind = "list" THEN f.category
    ELSE IF f.category.kind = "tag" /\ f.category.tag # "" THEN f.category
    ELSE Tag(f.mime[1])

\* Array.isArray(c) ? c : [c]
AsArray(c, heap) == IF c.kind = "list" THEN heap[c.ref] ELSE <<c.tag>>

\* a JavaScript value is truthy: an array always, a string when not empty
Truthy(c) == c.kind = "list" \/ c.tag # ""

-----------------------------------------------------------------------------
(* Cost tables.                                                            *)

CCC(from, to, handler, cost) == [from |-> from, to |-> to, handler |-> handler, cost |-> cost]

DefaultCategoryChangeCosts == <<
    CCC("image", "video", "", 20),
    CCC("video", "image", "", 40),
    CCC("image", "audio", "ffmpeg", 10000),
    CCC("audio", "image", "ffmpeg", 10000),
    CCC("text", "audio", "ffmpeg", 10000),
    CCC("audio", "text", "ffmpeg", 10000),
    CCC("image", "audio", "", 140),
    CCC("audio", "image", "", 100),
    CCC("video", "audio", "", 140),
    CCC("audio", "video", "", 100),
    CCC("text", "image", "", 50),
    CCC("image", "text", "", 50),
    CCC("text", "audio", "", 60) >>

DefaultCategoryAdaptiveCosts == <<
    [categories |-> <<"text", "image", "audio">>, cost |-> 1500],
    [categories |-> <<"image", "video", "audio">>, cost |-> 1000000],
    [categories |-> <<"audio", "video", "image">>, cost |-> 1000000] >>

\* the predicate of has/update/removeCategoryChangeCost
SameChange(c, from, to, handler) ==
    c.from = from /\ c.to = to /\ c.handler = ToLowerCase(handler)

hasCategoryChangeCost(tbl, from, to, handler) ==
    \E i \in 1..Len(tbl) : SameChange(tbl[i], from, to, handler)

\* updateCategoryChangeCost when the entry exists: the first match is updated
SetChangeCost(tbl, from, to, cost, handler) ==
    LET k == FindIndex(tbl, LAMBDA c : SameChange(c, from, to, handler)) + 1
    IN  [tbl EXCEPT ![k].cost = cost]

addCategoryChangeCost(tbl, from, to, cost, handler, updateIfExists) ==
    IF hasCategoryChangeCost(tbl, from, to, handler)
    THEN IF updateIfExists THEN SetChangeCost(tbl, from, to, cost, handler) ELSE tbl
    ELSE Append(tbl, CCC(from, to, ToLowerCase(handler), cost))

removeCategoryChangeCost(tbl, from, to, handler) ==
    SelectSeq(tbl, LAMBDA c : ~SameChange(c, from, to, handler))

updateCategoryChangeCost(tbl, from, to, cost, handler) ==
    IF hasCategoryChangeCost(tbl, from, to, handler)
    THEN SetChangeCost(tbl, from, to, cost, handler)
    ELSE addCategoryChangeCost(tbl, from, to, cost, handler, TRUE)

\* same length and the same category at every index
SameCategories(c, categories) == c.categories = categories

hasCategoryAdaptiveCost(tbl, categories) ==
    \E i \in 1..Len(tbl) : SameCategories(tbl[i], categories)

SetAdaptiveCost(tbl, categories, cost) ==
    LET k == FindIndex(tbl, LAMBDA c : SameCategories(c, categories)) + 1
    IN  [tbl EXCEPT ![k].cost = cost]

addCategoryAdaptiveCost(tbl, categories, cost, updateIfExists) ==
    IF hasCategoryAdaptiveCost(tbl, categories)
    THEN IF updateIfExists THEN SetAdaptiveCost(tbl, categories, cost) ELSE tbl
    ELSE Append(tbl, [categories |-> categories, cost |-> cost])

removeCategoryAdaptiveCost(tbl, categories) ==
    SelectSeq(tbl, LAMBDA c : ~SameCategories(c, categories))

updateCategoryAdaptiveCost(tbl, categories, cost) ==
    IF hasCategoryAdaptiveCost(tbl, categories)
    THEN SetAdaptiveCost(tbl, categories, cost)
    ELSE addCategoryAdaptiveCost(tbl, categories, cost, TRUE)

-----------------------------------------------------------------------------
(* costFunction and init.                                                  *)

\* handlerPairs.get(`${from}->${to}`): a Map built from the entries that name a
\* handler keeps, for one key, the handler of the last such entry.
HandlerPairsGet(tbl, from, to) ==
    LET S == {i \in 1..Len(tbl) : tbl[i].handler # "" /\ tbl[i].from = from /\ tbl[i].to = to}
    IN  IF S = {} THEN "undefined"
        ELSE tbl[CHOOSE i \in S : \A j \in S : j <= i].handler

\* the strict branch: every entry of the table adds its cost or the default
StrictCategoryCost(tbl, fromCategories, toCategories, handler) ==
    LET Term(c) == IF /\ Includes(fromCategories, c.from)
                      /\ Includes(toCategories, c.to)
                      /\ (c.handler = "" \/ c.handler = ToLowerCase(handler))
                   THEN c.cost ELSE DEFAULT_CATEGORY_CHANGE_COST
        Sum[k \in 0..Len(tbl)] == IF k = 0 THEN 0 ELSE Sum[k-1] + Term(tbl[k])
    IN  Sum[Len(tbl)]

\* the lenient branch without the table: every change of category at the default
LenientCategoryCostDefault(tbl, fromCategories, toCategories, handler) ==
    DEFAULT_CATEGORY_CHANGE_COST

\* the lenient branch when the endpoints share no category
LenientCategoryCost(tbl, fromCategories, toCategories, handler) ==
    LET costs == SelectSeq(tbl, LAMBDA c :
                    /\ Includes(fromCategories, c.from)
                    /\ Includes(toCategories, c.to)
                    /\ \/ (c.handler = "" /\ HandlerPairsGet(tbl, c.from, c.to) # ToLowerCase(handler))
                       \/ c.handler = ToLowerCase(handler))
    IN  IF Len(costs) = 0 THEN DEFAULT_CATEGORY_CHANGE_COST
        ELSE MinOf({costs[i].cost : i \in 1..Len(costs)})

CategoryChangeComponent(tbl, heap, from, to, strictCategories, handler) ==
    LET fromCategory == CategoryOrMime(from.format)
        toCategory == CategoryOrMime(to.format)
        fromCategories == AsArray(fromCategory, heap)
        toCategories == AsArray(toCategory, heap)
    IN  IF Truthy(fromCategory) /\ Truthy(toCategory)
        THEN IF strictCategories
             THEN StrictCategoryCost(tbl, fromCategories, toCategories, handler)
             ELSE IF ~\E i \in 1..Len(fromCategories) : Includes(toCategories, fromCategories[i])
                  THEN LenientCategoryCost(tbl, fromCategories, toCategories, handler)
                  ELSE 0
        ELSE IF Truthy(fromCategory) \/ Truthy(toCategory)
             THEN DEFAULT_CATEGORY_CHANGE_COST
             ELSE 0

\* handlerObj?.supportedFormats?.findIndex(f => f.mime === to.format.mime) ?? 0
FormatPosition(hs, handler, mime) ==
    LET k == FindIndex(hs, LAMBDA h : h.name = handler)
    IN  IF k = -1 THEN 0
        ELSE IF ~hs[k+1].hasFormats THEN 0
        ELSE FindIndex(hs[k+1].supportedFormats, LAMBDA f : f.mime = mime)

\* a cost that does not start from DEPTH_COST
costFunctionNoDepth(tbl, heap, hs, from, to, strictCategories, handler, handlerIndex) ==
    LET c1 == CategoryChangeComponent(tbl, heap, from, to, strictCategories, handler)
        c2 == c1 + HANDLER_PRIORITY_COST * handlerIndex
        c3 == c2 + FORMAT_PRIORITY_COST * FormatPosition(hs, handler, to.format.mime)
    IN  IF ~to.format.lossless THEN (c3 * LOSSY_COST_MULTIPLIER) \div 100 ELSE c3

costFunction(tbl, heap, hs, from, to, strictCategories, handler, handlerIndex) ==
    LET c1 == DEPTH_COST + CategoryChangeComponent(tbl, heap, from, to, strictCategories, handler)
        c2 == c1 + HANDLER_PRIORITY_COST * handlerIndex
        c3 == c2 + FORMAT_PRIORITY_COST * FormatPosition(hs, handler, to.format.mime)
    IN  IF ~to.format.lossless THEN (c3 * LOSSY_COST_MULTIPLIER) \div 100 ELSE c3

\* the nodes after formats.forEach of every cache entry: one per distinct MIME,
\* in order of first occurrence
RECURSIVE AddNodes(_, _)
AddNodes(mimes, formats) ==
    IF formats = <<>> THEN mimes
    ELSE AddNodes(IF Includes(mimes, Head(formats).mime) THEN mimes
                  ELSE Append(mimes, Head(formats).mime), Tail(formats))

RECURSIVE CacheMimes(_, _)
CacheMimes(mimes, cache) ==
    IF cache = <<>> THEN mimes
    ELSE CacheMimes(AddNodes(mimes, Head(cache).formats), Tail(cache))

\* fromIndices / toIndices of one cache entry
Indexed(mimes, formats, wantFrom) ==
    LET sel == SelectSeq(formats, LAMBDA f : IF wantFrom THEN f.from ELSE f.to)
    IN  [i \in 1..Len(sel) |-> [format |-> sel[i], index |-> IndexOf(mimes, sel[i].mime)]]

\* the edges one cache entry adds, in the order of the two nested forEach
HandlerEdges(tbl, heap, hs, mimes, entry, strictCategories, handlerIndex) ==
    LET fromIndices == Indexed(mimes, entry.formats, TRUE)
        toIndices == Indexed(mimes, entry.formats, FALSE)
        n == Len(toIndices)
        all == [k \in 1..(Len(fromIndices) * n) |->
                   LET from == fromIndices[((k - 1) \div n) + 1]
                       to == toIndices[((k - 1) % n) + 1]
                   IN  [from |-> from, to |-> to, handler |-> entry.name,
                        cost |-> costFunction(tbl, heap, hs, from, to, strictCategories,
                                              entry.name, handlerIndex)]]
    IN  SelectSeq(all, LAMBDA e : e.from.index # e.to.index)

RECURSIVE BuildEdges(_, _, _, _, _, _, _)
BuildEdges(tbl, heap, hs, mimes, cache, strictCategories, handlerIndex) ==
    IF handlerIndex >= Len(cache) THEN <<>>
    ELSE HandlerEdges(tbl, heap, hs, mimes, cache[handlerIndex + 1], strictCategories, handlerIndex)
         \o BuildEdges(tbl, heap, hs, mimes, cache, strictCategories, handlerIndex + 1)

\* TraversionGraph.init: [nodes, edges]
init(tbl, heap, cache, hs, strictCategories) ==
    LET mimes == CacheMimes(<<>>, cache)
        es == BuildEdges(tbl, heap, hs, mimes, cache, strictCategories, 0)
        ids == [k \in 1..Len(es) |-> k - 1]
        Out(i) == SelectSeq(ids, LAMBDA k : es[k + 1].from.index = i)
    IN  [nodes |-> [i \in 1..Len(mimes) |-> [mime |-> mimes[i], edges |-> Out(i - 1)]],
         edges |-> es]

-----------------------------------------------------------------------------
(* PriorityQueue with the comparator searchPath passes.  The sequence is    *)
(* the first _size slots of _queue; slot k of the source is position k+1.   *)

\* the comparator with its operands exchanged
comparatorReversed(a, b) == b.cost - a.cost

comparator(a, b) == a.cost - b.cost

RECURSIVE siftupUsingComparator(_, _, _)
siftupUsingComparator(q, k, item) ==
    IF k > 0
    THEN LET parent == (k - 1) \div 2
             e == q[parent + 1]
         IN  IF comparator(item, e) >= 0
             THEN [q EXCEPT ![k + 1] = item]
             ELSE siftupUsingComparator([q EXCEPT ![k + 1] = e], parent, item)
    ELSE [q EXCEPT ![k + 1] = item]

\* the sink that always descends to the left child
RECURSIVE sinkLeftChild(_, _, _)
sinkLeftChild(q, k, item) ==
    LET size == Len(q)
        half == size \div 2
    IN  IF k < half
        THEN LET child == (2 * k) + 1
                 object == q[child + 1]
             IN  IF comparator(item, object) <= 0
                 THEN [q EXCEPT ![k + 1] = item]
                 ELSE sinkLeftChild([q EXCEPT ![k + 1] = object], child, item)
        ELSE [q EXCEPT ![k + 1] = item]

RECURSIVE sinkUsingComparator(_, _, _)
sinkUsingComparator(q, k, item) ==
    LET size == Len(q)
        half == size \div 2
    IN  IF k < half
        THEN LET left == (2 * k) + 1
                 right == left + 1
                 child == IF right < size /\ comparator(q[left + 1], q[right + 1]) > 0
                          THEN right ELSE left
                 object == q[child + 1]
             IN  IF comparator(item, object) <= 0
                 THEN [q EXCEPT ![k + 1] = item]
                 ELSE sinkUsingComparator([q EXCEPT ![k + 1] = object], child, item)
        ELSE [q EXCEPT ![k + 1] = item]

\* PriorityQueue.add
add(q, item) ==
    LET i == Len(q)
    IN  IF i = 0 THEN <<item>> ELSE siftupUsingComparator(Append(q, item), i, item)

\* PriorityQueue.poll on a queue that is not empty: the queue that is left
\* (the result is q[1])
poll(q) ==
    LET s == Len(q) - 1
        x == q[s + 1]
    IN  IF s # 0 THEN sinkUsingComparator(SubSeq(q, 1, s), 0, x) ELSE <<>>

-----------------------------------------------------------------------------
(* searchPath and calculateAdaptiveCost.                                   *)

PathNode(handler, format) == [handler |-> handler, format |-> format]

\* categoriesInPath[pathPtr] === c.categories[categoryPtr]: an array is never
\* identical to a string
StrictEq(pathCategory, tag) == pathCategory.kind # "list" /\ pathCategory.tag = tag

\* the while loop of calculateAdaptiveCost for one entry, pointers 0-based:
\* TRUE when the entry's cost is added
RECURSIVE AdaptiveMatch(_, _, _, _)
AdaptiveMatch(categoriesInPath, categories, pathPtr, categoryPtr) ==
    IF categoryPtr >= 0 /\ StrictEq(categoriesInPath[pathPtr + 1], categories[categoryPtr + 1])
    THEN IF categoryPtr - 1 < 0 THEN TRUE
         ELSE IF pathPtr - 1 < 0 THEN FALSE
         ELSE AdaptiveMatch(categoriesInPath, categories, pathPtr - 1, categoryPtr - 1)
    ELSE IF /\ categoryPtr + 1 < Len(categories)
            /\ StrictEq(categoriesInPath[pathPtr + 1], categories[categoryPtr + 2])
         THEN IF pathPtr - 1 < 0 THEN FALSE
              ELSE AdaptiveMatch(categoriesInPath, categories, pathPtr - 1, categoryPtr)
         ELSE FALSE

calculateAdaptiveCost(adaptive, path) ==
    LET categoriesInPath == [i \in 1..Len(path) |-> CategoryOrMime(path[i].format)]
        Term(c) == IF AdaptiveMatch(categoriesInPath, c.categories,
                                    Len(categoriesInPath) - 1, Len(c.categories) - 1)
                   THEN c.cost ELSE 0
        Sum[k \in 0..Len(adaptive)] == IF k = 0 THEN 0 ELSE Sum[k-1] + Term(adaptive[k])
    IN  Sum[Len(adaptive)]

\* [format.category].flat().includes(tag)
FlatIncludes(f, heap, tag) ==
    CASE f.category.kind = "list" -> Includes(heap[f.category.ref], tag)
      [] f.category.kind = "tag" -> f.category.tag = tag
      [] OTHER -> FALSE

\* the safe check of searchPath: some three consecutive nodes are image, video, audio
LossOfMedia(path, heap) ==
    \E i \in 1..(Len(path) - 2) :
        /\ FlatIncludes(path[i].format, heap, "image")
        /\ FlatIncludes(path[i + 1].format, heap, "video")
        /\ FlatIncludes(path[i + 2].format, heap, "audio")

NodeIndex(ns, mime) == FindIndex(ns, LAMBDA n : n.mime = mime)

Event(state, path) == [state |-> state, path |-> path]

NoNode == PathNode("", Supported(PNG, FALSE, FALSE, FALSE))

\* no generator
NoSearch ==
    [pc |-> "none", from |-> NoNode, to |-> NoNode, simpleMode |-> FALSE,
     queue |-> <<>>, visited |-> <<>>, toIndex |-> -1,
     yielded |-> <<>>, events |-> <<>>, adaptiveAtStart |-> <<>>]

\* searchPath(from, to, simpleMode): the generator object, whose body has not run
NewSearch(from, to, simpleMode) ==
    [NoSearch EXCEPT !.pc = "created", !.from = from, !.to = to, !.simpleMode = simpleMode]

\* the first pull when only the source's MIME is looked for
EnterSearchSourceOnly(s, ns, adaptive) ==
    LET fromIndex == NodeIndex(ns, s.from.format.mime)
        toIndex == NodeIndex(ns, s.to.format.mime)
    IN  IF fromIndex = -1
        THEN [s EXCEPT !.pc = "done", !.adaptiveAtStart = adaptive]
        ELSE [s EXCEPT !.pc = "running", !.toIndex = toIndex,
                       !.adaptiveAtStart = adaptive,
                       !.queue = add(<<>>, [index |-> fromIndex, cost |-> 0,
                                            path |-> <<s.from>>, visitedBorder |-> 0])]

\* the first pull when a source that has the target's MIME ends the search
EnterSearchDistinct(s, ns, adaptive) ==
    LET fromIndex == NodeIndex(ns, s.from.format.mime)
        toIndex == NodeIndex(ns, s.to.format.mime)
    IN  IF fromIndex = -1 \/ toIndex = -1 \/ fromIndex = toIndex
        THEN [s EXCEPT !.pc = "done", !.adaptiveAtStart = adaptive]
        ELSE [s EXCEPT !.pc = "running", !.toIndex = toIndex,
                       !.adaptiveAtStart = adaptive,
                       !.queue = add(<<>>, [index |-> fromIndex, cost |-> 0,
                                            path |-> <<s.from>>, visitedBorder |-> 0])]

\* the first pull runs the body down to the loop
EnterSearch(s, ns, adaptive) ==
    LET fromIndex == NodeIndex(ns, s.from.format.mime)
        toIndex == NodeIndex(ns, s.to.format.mime)
    IN  IF fromIndex = -1 \/ toIndex = -1
        THEN [s EXCEPT !.pc = "done", !.adaptiveAtStart = adaptive]
        ELSE [s EXCEPT !.pc = "running", !.toIndex = toIndex,
                       !.adaptiveAtStart = adaptive,
                       !.queue = add(<<>>, [index |-> fromIndex, cost |-> 0,
                                            path |-> <<s.from>>, visitedBorder |-> 0])]

\* a test that finds no vertex visited
BelowBorderNever(visited, index, visitedBorder) == FALSE

\* indexInVisited >= 0 && indexInVisited < visitedBorder: the vertex was put
\* into visited before the record was made
BelowBorder(visited, index, visitedBorder) ==
    LET indexInVisited == IndexOf(visited, index)
    IN  indexInVisited >= 0 /\ indexInVisited < visitedBorder

\* an expansion that does not look the edge's handler up
RECURSIVE ExpandAnyHandler(_, _, _, _, _, _, _, _)
ExpandAnyHandler(q, current, visited, out, k, es, hs, adaptive) ==
    IF k > Len(out) THEN q
    ELSE LET edge == es[out[k] + 1]
             path == Append(current.path, PathNode(edge.handler, edge.to.format))
             q2 == IF BelowBorder(visited, edge.to.index, current.visitedBorder)
                   THEN q
                   ELSE add(q, [index |-> edge.to.index,
                                cost |-> current.cost + edge.cost
                                          + calculateAdaptiveCost(adaptive, path),
                                path |-> path,
                                visitedBorder |-> Len(visited)])
         IN  ExpandAnyHandler(q2, current, visited, out, k + 1, es, hs, adaptive)

\* the edges.forEach of one expansion, from the k-th outgoing edge on; the
\* queue reached so far is bound as q, a value computed once
RECURSIVE Expand(_, _, _, _, _, _, _, _)
Expand(queue, current, visited, out, k, es, hs, adaptive) ==
    CHOOSE result \in
        {IF k > Len(out) THEN q
         ELSE LET edge == es[out[k] + 1]
                  handler == FindIndex(hs, LAMBDA h : h.name = edge.handler)
                  path == Append(current.path, PathNode(edge.handler, edge.to.format))
                  q2 == IF BelowBorder(visited, edge.to.index, current.visitedBorder)
                           \/ handler = -1
                        THEN q
                        ELSE add(q, [index |-> edge.to.index,
                                     cost |-> current.cost + edge.cost
                                               + calculateAdaptiveCost(adaptive, path),
                                     path |-> path,
                                     visitedBorder |-> Len(visited)])
              IN  Expand(q2, current, visited, out, k + 1, es, hs, adaptive)
         : q \in {queue}} : TRUE

\* one iteration of the while loop, the queue not being empty
SearchIteration(s, ns, es, hs, adaptive, heap, disable) ==
    LET current == s.queue[1]
        q == poll(s.queue)
    IN  IF BelowBorder(s.visited, current.index, current.visitedBorder)
        THEN [s EXCEPT !.queue = q,
                       !.events = Append(@, Event("skipped", current.path))]
        ELSE IF current.index = s.toIndex
        THEN IF ~disable /\ LossOfMedia(current.path, heap)
             THEN [s EXCEPT !.queue = q]
             ELSE IF \/ s.simpleMode
                     \/ s.to.handler = ""
                     \/ s.to.handler = current.path[Len(current.path)].handler
                  THEN [s EXCEPT !.queue = q, !.pc = "yielded",
                                 !.events = Append(@, Event("found", current.path)),
                                 !.yielded = Append(@, current)]
                  ELSE [s EXCEPT !.queue = q,
                                 !.events = Append(@, Event("skipped", current.path))]
        ELSE LET visited == Append(s.visited, current.index)
             IN  [s EXCEPT !.visited = visited,
                           !.events = Append(@, Event("searching", current.path)),
                           !.queue = Expand(q, current, visited,
                                            ns[current.index + 1].edges, 1, es, hs, adaptive)]

\* a loop that an empty queue does not end
SearchStepNoEnd(s, ns, es, hs, adaptive, heap, disable) ==
    IF s.pc = "created" THEN EnterSearch(s, ns, adaptive)
    ELSE IF Len(s.queue) = 0 THEN s
    ELSE SearchIteration(s, ns, es, hs, adaptive, heap, disable)

\* one step of a generator that is being pulled
SearchStep(s, ns, es, hs, adaptive, heap, disable) ==
    IF s.pc = "created" THEN EnterSearch(s, ns, adaptive)
    ELSE IF Len(s.queue) = 0 THEN [s EXCEPT !.pc = "done"]
    ELSE SearchIteration(s, ns, es, hs, adaptive, heap, disable)

\* a generator pulled until it ends, the tables not changing: its final state
RECURSIVE RunSearch(_, _, _, _, _, _, _)
RunSearch(s, ns, es, hs, adaptive, heap, disable) ==
    IF s.pc = "done" THEN s
    ELSE RunSearch(SearchStep(IF s.pc = "yielded" THEN [s EXCEPT !.pc = "running"] ELSE s,
                              ns, es, hs, adaptive, heap, disable),
                   ns, es, hs, adaptive, heap, disable)

-----------------------------------------------------------------------------
(* Handler lists and the searches made on them.                            *)

Handler(name, formats) ==
    [name |-> name, supportedFormats |-> formats, hasFormats |-> TRUE, ready |-> FALSE]

\* a handler whose supportedFormats is assigned by init()
LazyHandler(name) ==
    [name |-> name, supportedFormats |-> <<>>, hasFormats |-> FALSE, ready |-> FALSE]

\* the list such a handler's init() assigns
InitFormats(name) ==
    CASE name = "ffmpeg" -> <<Supported(PNG, TRUE, FALSE, TRUE),
                              Supported(MP3, FALSE, TRUE, FALSE),
                              Supported(WAV, TRUE, TRUE, TRUE)>>
      [] OTHER -> <<>>

\* the handler after its init() has resolved
AfterInit(h) ==
    IF h.hasFormats
    THEN [h EXCEPT !.ready = TRUE]
    ELSE [h EXCEPT !.ready = TRUE, !.hasFormats = TRUE,
                   !.supportedFormats = InitFormats(h.name)]

\* the handlers of the mock test
MockHandlers == <<
    Handler("canvasToBlob", <<Supported(PNG, TRUE, TRUE, TRUE),
                              Supported(JPEG, TRUE, TRUE, FALSE),
                              Supported(SVG, TRUE, TRUE, TRUE)>>),
    Handler("meyda", <<Supported(JPEG, TRUE, TRUE, FALSE),
                       Supported(PNG, TRUE, TRUE, FALSE),
                       Supported(WAV, TRUE, TRUE, FALSE)>>),
    Handler("ffmpeg", <<Supported(PNG, TRUE, TRUE, TRUE),
                        Supported(MP3, TRUE, TRUE, FALSE),
                        Supported(WAV, TRUE, TRUE, TRUE),
                        Supported(MP4, TRUE, TRUE, TRUE)>>) >>

\* an image reaches audio directly (ffmpeg), through video, or through text and video
DetourHandlers == <<
    Handler("alpha", <<Supported(PNG, TRUE, FALSE, TRUE),
                       Supported(MP4, FALSE, TRUE, TRUE),
                       Supported(TEXT, FALSE, TRUE, TRUE)>>),
    Handler("beta", <<Supported(TEXT, TRUE, FALSE, TRUE),
                      Supported(MP4, FALSE, TRUE, TRUE)>>),
    Handler("ffmpeg", <<Supported(PNG, TRUE, FALSE, TRUE),
                        Supported(MP4, TRUE, FALSE, TRUE),
                        Supported(MP3, FALSE, TRUE, FALSE)>>) >>

\* a video format declared without a category between an image and an audio format
BareHandlers == <<
    Handler("alpha", <<Supported(PNG, TRUE, FALSE, TRUE),
                       Supported(QTA, FALSE, TRUE, FALSE)>>),
    Handler("ffmpeg", <<Supported(QTA, TRUE, TRUE, FALSE),
                        Supported(WAV, TRUE, TRUE, TRUE),
                        Supported(MP3, FALSE, TRUE, FALSE)>>) >>

\* a format with a category list between an image and an audio format
GifHandlers == <<
    Handler("alpha", <<Supported(PNG, TRUE, FALSE, TRUE),
                       Supported(GIF, TRUE, TRUE, TRUE)>>),
    Handler("ffmpeg", <<Supported(GIF, TRUE, FALSE, TRUE),
                        Supported(MP3, FALSE, TRUE, FALSE)>>) >>

\* an image reaches audio through video, or through text and video
TextVideoHandlers == <<
    Handler("alpha", <<Supported(PNG, TRUE, FALSE, TRUE),
                       Supported(MP4, FALSE, TRUE, TRUE),
                       Supported(TEXT, FALSE, TRUE, TRUE)>>),
    Handler("beta", <<Supported(TEXT, TRUE, FALSE, TRUE),
                      Supported(MP4, FALSE, TRUE, TRUE)>>),
    Handler("ffmpeg", <<Supported(MP4, TRUE, FALSE, TRUE),
                        Supported(MP3, FALSE, TRUE, FALSE)>>) >>

HandlerLists == {MockHandlers, DetourHandlers, BareHandlers, GifHandlers, TextVideoHandlers}

\* handlers whose precomputed cache has drifted from them: ffmpeg no longer
\* declares JPEG input and MP4 output, and the handler "legacy" is gone
DriftHandlers == <<
    Handler("alpha", <<Supported(PNG, TRUE, TRUE, TRUE),
                       Supported(JPEG, FALSE, TRUE, FALSE)>>),
    Handler("ffmpeg", <<Supported(WAV, TRUE, TRUE, TRUE),
                        Supported(MP3, FALSE, TRUE, FALSE)>>) >>

DriftCache == <<
    [name |-> "alpha", formats |-> <<Supported(PNG, TRUE, TRUE, TRUE),
                                     Supported(JPEG, FALSE, TRUE, FALSE)>>],
    [name |-> "legacy", formats |-> <<Supported(PNG, TRUE, FALSE, TRUE),
                                      Supported(WAV, FALSE, TRUE, TRUE)>>],
    [name |-> "ffmpeg", formats |-> <<Supported(JPEG, TRUE, FALSE, FALSE),
                                      Supported(WAV, TRUE, TRUE, TRUE),
                                      Supported(MP3, FALSE, TRUE, FALSE),
                                      Supported(MP4, FALSE, TRUE, TRUE)>>] >>

Names(hs) == [i \in 1..Len(hs) |-> hs[i].name]

\* a format whose MIME no handler declares
BIN == [format |-> "bin", mime |-> <<"application", "octet-stream">>, category |-> NoCategory]

\* the source nodes searched from: PNG on the first handler, and BIN
Sources(hs) == {PathNode(hs[1].name, Supported(PNG, TRUE, TRUE, TRUE)),
                PathNode(hs[1].name, Supported(BIN, TRUE, TRUE, FALSE))}

\* the target nodes searched for: MP3 on ffmpeg, JPEG on the first handler, MP3
\* without a handler, BIN, and PNG, the MIME of the source, on ffmpeg
Targets(hs) ==
    {PathNode("ffmpeg", Supported(MP3, TRUE, TRUE, TRUE)),
     PathNode("ffmpeg", Supported(PNG, FALSE, TRUE, TRUE)),
     PathNode(hs[1].name, Supported(JPEG, TRUE, TRUE, FALSE)),
     PathNode("", Supported(MP3, TRUE, TRUE, TRUE)),
     PathNode(hs[1].name, Supported(BIN, TRUE, TRUE, FALSE))}

\* the cache the registry fills: every handler's name with its formats, in
\* handler order
CacheOf(hs) == [i \in 1..Len(hs) |-> [name |-> hs[i].name, formats |-> hs[i].supportedFormats]]

\* a handler list with the cache the graph is built from: the cache the
\* handlers' own lists make, or a precomputed cache that has drifted
Registries ==
    {[handlers |-> hs, cache |-> CacheOf(hs), drifted |-> FALSE] : hs \in HandlerLists}
    \cup {[handlers |-> DriftHandlers, cache |-> DriftCache, drifted |-> TRUE]}

\* the cost-table calls made
TableOps == {
    [op |-> "removeAdaptive", categories |-> <<"image", "video", "audio">>, cost |-> 0,
     handler |-> ""],
    [op |-> "addAdaptive", categories |-> <<"image", "audio">>, cost |-> 2000000,
     handler |-> ""],
    [op |-> "addChange", categories |-> <<"image", "audio">>, cost |-> 10000,
     handler |-> ""],
    [op |-> "addChange", categories |-> <<"image", "audio">>, cost |-> 3000,
     handler |-> "meyda"],
    [op |-> "updateChange", categories |-> <<"image", "video">>, cost |-> 500,
     handler |-> ""] }

ApplyToChange(tbl, o) ==
    CASE o.op = "addChange" ->
            addCategoryChangeCost(tbl, o.categories[1], o.categories[2], o.cost, o.handler, TRUE)
      [] o.op = "removeChange" ->
            removeCategoryChangeCost(tbl, o.categories[1], o.categories[2], o.handler)
      [] o.op = "updateChange" ->
            updateCategoryChangeCost(tbl, o.categories[1], o.categories[2], o.cost, o.handler)
      [] OTHER -> tbl

ApplyToAdaptive(tbl, o) ==
    CASE o.op = "addAdaptive" -> addCategoryAdaptiveCost(tbl, o.categories, o.cost, TRUE)
      [] o.op = "removeAdaptive" -> removeCategoryAdaptiveCost(tbl, o.categories)
      [] o.op = "updateAdaptive" -> updateCategoryAdaptiveCost(tbl, o.categories, o.cost)
      [] OTHER -> tbl

-----------------------------------------------------------------------------
(* getData.                                                                *)

NoData == [taken |-> FALSE, writes |-> 0, nodes |-> <<>>, edges |-> <<>>,
           categoryChangeCosts |-> <<>>, categoryAdaptiveCosts |-> <<>>]

\* getData: nodes, edges and both tables copied; {...edge.from.format} copies the
\* format's fields, so a category array stays the array the graph's format holds
getData(ns, es, ccc, cac) ==
    [taken |-> TRUE, writes |-> 0, nodes |-> ns, edges |-> es,
     categoryChangeCosts |-> ccc, categoryAdaptiveCosts |-> cac]

NotBuilt == [done |-> FALSE, strictCategories |-> FALSE, mutations |-> 0]

\* the capacity the constructor takes when none is passed
DefaultCapacity == 11

\* an element of the queue: an object told from the others by id
Item(cost, id) == [cost |-> cost, id |-> id]

\* new PriorityQueue(initialCapacity, comparator): _size is Len(queue), capacity
\* is _queue.length; live, before, last, null and result are history
NewQueue(initialCapacity) ==
    [queue |-> <<>>, capacity |-> initialCapacity, adds |-> 0, live |-> {},
     before |-> {}, last |-> "none", null |-> FALSE, result |-> Item(0, 0)]

\* no queue made
NoQueue == [NewQueue(DefaultCapacity) EXCEPT !.last = "off"]

\* PriorityQueue.grow: the new length of _queue
grow(size) == size + (IF size < 64 THEN size + 2 ELSE size \div 2)

\* the registry not in use
NoRegistry == [pc |-> "off"]

-----------------------------------------------------------------------------
(* The executor: tryConvertByTraversing and attemptConvertPath.            *)

\* the module's simpleMode
moduleSimpleMode == TRUE

\* the files handed to a conversion, a file being its number of bytes
InputFiles == {<<3>>}

\* what a handler's doConvert may do: return files (some of no bytes, or no
\* file at all) or throw
DoConvertOutcomes ==
    {[throws |-> FALSE, files |-> <<5>>],
     [throws |-> FALSE, files |-> <<0>>],
     [throws |-> FALSE, files |-> <<>>],
     [throws |-> TRUE, files |-> <<>>]}

NoResult == [null |-> TRUE, files |-> <<>>, path |-> <<>>]

NoExec ==
    [pc |-> "idle", from |-> NoNode, to |-> NoNode, files |-> <<>>,
     path |-> <<>>, i |-> 0, cur |-> <<>>, attempts |-> <<>>, calls |-> {},
     cause |-> "", result |-> NoResult, given |-> <<>>, leftover |-> FALSE]

\* handlers.find(h => h.name === name): the position of the first of that name
HandlerAt(hs, name) == FindIndex(hs, LAMBDA h : h.name = name) + 1

\* supportedFormatCache.get(name)
CacheHas(cache, name) == \E k \in 1..Len(cache) : cache[k].name = name

\* supportedFormatCache.get(name) of a name that has an entry
CacheGet(cache, name) == cache[CHOOSE k \in 1..Len(cache) : cache[k].name = name].formats

\* supportedFormats.find(c => c.mime === path[i].format.mime && c.from): the
\* position found, -1 for undefined
FindInputFormat(supportedFormats, mime) ==
    FindIndex(supportedFormats, LAMBDA c : c.mime = mime /\ c.from)

\* supportedFormatCache.set(name, formats): a key keeps its place
CacheSet(cache, name, formats) ==
    IF CacheHas(cache, name)
    THEN [k \in 1..Len(cache) |->
            IF cache[k].name = name THEN [name |-> name, formats |-> formats] ELSE cache[k]]
    ELSE Append(cache, [name |-> name, formats |-> formats])

\* if (path.at(-1)?.handler === toNode.handler) path[path.length - 1] = toNode
SubstituteTarget(path, toNode) ==
    IF Len(path) > 0 /\ path[Len(path)].handler = toNode.handler
    THEN [path EXCEPT ![Len(path)] = toNode]
    ELSE path

\* files.some(c => !c.bytes.length)
OutputIsEmpty(files) == \E k \in 1..Len(files) : files[k] = 0

\* a step whose try block does not catch what doConvert throws
StepOutcomeUncaught(initRejects, hasCache, o) ==
    IF initRejects THEN "null"
    ELSE IF ~hasCache THEN "null"
    ELSE IF o.throws THEN "throws"
    ELSE IF OutputIsEmpty(o.files) THEN "null"
    ELSE "next"

\* what a step of attemptConvertPath comes to: the loop goes on ("next"), the
\* attempt returns null ("null"), or an exception leaves attemptConvertPath
\* ("throws"); both try blocks catch
StepOutcome(initRejects, hasCache, o) ==
    IF initRejects THEN "null"
    ELSE IF ~hasCache THEN "null"
    ELSE IF o.throws THEN "null"
    ELSE IF OutputIsEmpty(o.files) THEN "null"
    ELSE "next"

\* why a step did not go on
StepCause(initRejects, hasCache, o) ==
    IF initRejects THEN "init"
    ELSE IF ~hasCache THEN "nocache"
    ELSE IF o.throws THEN "throw"
    ELSE IF OutputIsEmpty(o.files) THEN "empty"
    ELSE ""

\* a loop that goes on whatever the attempt returned
AfterAttemptGoOn(attemptOk) == "pulling"

\* the body of the for await loop after an attempt: if (attempt) return attempt
AfterAttempt(attemptOk) == IF attemptOk THEN "returned" ELSE "pulling"

\* an attempt that starts from what the attempt before has left
AttemptInputCarried(e) == IF e.attempts = <<>> THEN e.files ELSE e.cur

\* the first argument of attemptConvertPath(files, path): the files parameter
\* of tryConvertByTraversing, which nothing assigns
AttemptInput(e) == e.files

\* the executor after a doConvert call of the running attempt was given files
Given(e, called, files) ==
    IF called THEN [e EXCEPT !.given = Append(@, files)] ELSE e

\* the last attempt of the log closed with a status
CloseAttempt(attempts, status, cause) ==
    [attempts EXCEPT ![Len(attempts)].status = status, ![Len(attempts)].cause = cause]

\* the executor after a step that did not go on
FailStep(e, outcome, cause, call) ==
    IF outcome = "throws"
    THEN [e EXCEPT !.pc = "crashed", !.cause = cause, !.calls = @ \cup {call}]
    ELSE [e EXCEPT !.pc = AfterAttempt(FALSE), !.cause = cause, !.calls = @ \cup {call},
                   !.attempts = CloseAttempt(@, "failed", cause)]

-----------------------------------------------------------------------------
(* The graph under test: cost tables changed, graph built, one search      *)
(* pulled by a consumer, the value of getData written to.                  *)

Init ==
    /\ \E r \in Registries :
        /\ handlers = r.handlers
        /\ supportedFormatCache = r.cache
    /\ arrays = InitArrays
    /\ categoryChangeCosts = DefaultCategoryChangeCosts
    /\ categoryAdaptiveCosts = DefaultCategoryAdaptiveCosts
    /\ disableSafeChecks \in BOOLEAN
    /\ nodes = <<>>
    /\ edges = <<>>
    /\ search = NoSearch
    /\ mutations = <<>>
    /\ built = NotBuilt
    /\ data = NoData
    /\ exec = NoExec
    /\ pq = NoQueue
    /\ registry = NoRegistry

\* no code of the generator is running: a caller may act
Suspended == search.pc \in {"none", "created", "yielded", "done"}

\* a call of one of the six cost-table mutators
MutateTables ==
    /\ search.pc \in {"none", "yielded"}
    /\ Len(mutations) < MaxMutations
    /\ \E o \in TableOps :
        /\ categoryChangeCosts' = ApplyToChange(categoryChangeCosts, o)
        /\ categoryAdaptiveCosts' = ApplyToAdaptive(categoryAdaptiveCosts, o)
        /\ mutations' = Append(mutations, o)
    /\ UNCHANGED <<pq, registry>>
    /\ UNCHANGED <<handlers, supportedFormatCache, arrays, disableSafeChecks,
                   nodes, edges, search, built, data, exec>>

\* graph.init(supportedFormatCache, handlers, strictCategories), before the search
InitGraph ==
    /\ search.pc = "none"
    /\ \E strictCategories \in BOOLEAN :
        LET g == init(categoryChangeCosts, arrays, supportedFormatCache, handlers,
                      strictCategories)
        IN  /\ nodes' = g.nodes
            /\ edges' = g.edges
            /\ built' = [done |-> TRUE, strictCategories |-> strictCategories,
                         mutations |-> Len(mutations)]
    /\ UNCHANGED <<pq, registry>>
    /\ UNCHANGED <<handlers, supportedFormatCache, arrays, categoryChangeCosts,
                   categoryAdaptiveCosts, disableSafeChecks, search, mutations, data, exec>>

\* graph.searchPath(from, to, simpleMode) on a built graph
StartSearch ==
    /\ search.pc = "none"
    /\ nodes # <<>>
    /\ \E from \in Sources(handlers), to \in Targets(handlers), simpleMode \in BOOLEAN :
        search' = NewSearch(from, to, simpleMode)
    /\ UNCHANGED <<pq, registry>>
    /\ UNCHANGED <<handlers, supportedFormatCache, arrays, categoryChangeCosts,
                   categoryAdaptiveCosts, disableSafeChecks, nodes, edges, mutations,
                   built, data, exec>>

\* the consumer calls next() on the generator; the executor's loop does after
\* the attempt on the path yielded before
Pull ==
    /\ exec.pc \in {"idle", "pulling"}
    /\ exec.pc = "pulling" => Len(exec.attempts) = Len(search.yielded)
    /\ search.pc \in {"created", "yielded"}
    /\ search' = SearchStep([search EXCEPT !.pc = IF @ = "yielded" THEN "running" ELSE @],
                            nodes, edges, handlers, categoryAdaptiveCosts, arrays,
                            disableSafeChecks)
    /\ UNCHANGED <<pq, registry>>
    /\ UNCHANGED <<handlers, supportedFormatCache, arrays, categoryChangeCosts,
                   categoryAdaptiveCosts, disableSafeChecks, nodes, edges, mutations,
                   built, data, exec>>

\* the generator runs on to its next yield or its end
Iterate ==
    /\ search.pc = "running"
    /\ search' = SearchStep(search, nodes, edges, handlers, categoryAdaptiveCosts, arrays,
                            disableSafeChecks)
    /\ UNCHANGED <<pq, registry>>
    /\ UNCHANGED <<handlers, supportedFormatCache, arrays, categoryChangeCosts,
                   categoryAdaptiveCosts, disableSafeChecks, nodes, edges, mutations,
                   built, data, exec>>

\* graph.getData()
GetData ==
    /\ search.pc = "none"
    /\ nodes # <<>>
    /\ ~data.taken
    /\ data' = getData(nodes, edges, categoryChangeCosts, categoryAdaptiveCosts)
    /\ UNCHANGED <<pq, registry>>
    /\ UNCHANGED <<handlers, supportedFormatCache, arrays, categoryChangeCosts,
                   categoryAdaptiveCosts, disableSafeChecks, nodes, edges, search,
                   mutations, built, exec>>

\* the values a caller writes into a category list
CategoryLists == {<<"image">>, <<"video", "image">>}

\* the caller writes into the value getData returned: a field of a returned
\* edge or node, a returned table entry, or the category list of a format
\* inside a returned edge
WriteData ==
    /\ search.pc = "none"
    /\ data.taken
    /\ data.writes < MaxDataWrites
    /\ \/ /\ data' = [data EXCEPT !.writes = @ + 1, !.edges[1].cost = 0,
                                      !.edges[1].to.index = 0]
          /\ UNCHANGED arrays
       \/ /\ data' = [data EXCEPT !.writes = @ + 1, !.nodes[1].edges = <<>>]
          /\ UNCHANGED arrays
       \/ /\ data' = [data EXCEPT !.writes = @ + 1,
                                  !.categoryAdaptiveCosts[1].categories = <<"image">>,
                                  !.categoryChangeCosts[1].cost = 0]
          /\ UNCHANGED arrays
       \/ /\ \E k \in 1..Len(data.edges), l \in CategoryLists :
                /\ data.edges[k].to.format.category.kind = "list"
                /\ arrays' = [arrays EXCEPT ![data.edges[k].to.format.category.ref] = l]
          /\ data' = [data EXCEPT !.writes = @ + 1]
    /\ UNCHANGED <<pq, registry>>
    /\ UNCHANGED <<handlers, supportedFormatCache, categoryChangeCosts,
                   categoryAdaptiveCosts, disableSafeChecks, nodes, edges, search,
                   mutations, built, exec>>

Next ==
    \/ MutateTables
    \/ InitGraph
    \/ StartSearch
    \/ Pull
    \/ Iterate

Spec == Init /\ [][Next]_vars

\* a graph built once from the default tables and one search on it
NextFair ==
    \/ InitGraph
    \/ StartSearch
    \/ Pull
    \/ Iterate

\* with a consumer that goes on calling next() and a generator whose body,
\* once resumed, runs on
SpecFair == Init /\ [][NextFair]_vars /\ WF_vars(Pull) /\ WF_vars(Iterate)

\* the value of getData written to, then a search
NextData ==
    \/ InitGraph
    \/ GetData
    \/ WriteData
    \/ StartSearch
    \/ Pull
    \/ Iterate

SpecData == Init /\ [][NextData]_vars

-----------------------------------------------------------------------------
(* The executor's run: the registry's graph, one conversion.               *)

\* the registry after initializeFormats: the handlers initialised or taken from
\* the cache, the graph built from the cache with the default tables
InitExec ==
    /\ \E r \in Registries, ready \in BOOLEAN :
        /\ r.drifted => ~ready
        /\ handlers = [k \in 1..Len(r.handlers) |-> [r.handlers[k] EXCEPT !.ready = ready]]
        /\ supportedFormatCache = r.cache
    /\ arrays = InitArrays
    /\ categoryChangeCosts = DefaultCategoryChangeCosts
    /\ categoryAdaptiveCosts = DefaultCategoryAdaptiveCosts
    /\ disableSafeChecks = FALSE
    /\ LET g == init(categoryChangeCosts, arrays, supportedFormatCache, handlers, FALSE)
       IN  nodes = g.nodes /\ edges = g.edges
    /\ search = NoSearch
    /\ mutations = <<>>
    /\ built = [done |-> TRUE, strictCategories |-> FALSE, mutations |-> 0]
    /\ data = NoData
    /\ exec = NoExec
    /\ pq = NoQueue
    /\ registry = NoRegistry

\* tryConvertByTraversing(files, from, to) down to the for await loop
StartConvert ==
    /\ exec.pc = "idle"
    /\ search.pc = "none"
    /\ built.done
    /\ \E from \in Sources(handlers), files \in InputFiles :
       \E to \in {t \in Targets(handlers) : t.handler # ""} :
        /\ search' = NewSearch(from, to, moduleSimpleMode)
        /\ exec' = [NoExec EXCEPT !.pc = "pulling", !.from = from, !.to = to,
                                  !.files = files]
    /\ UNCHANGED <<pq, registry>>
    /\ UNCHANGED <<handlers, supportedFormatCache, arrays, categoryChangeCosts,
                   categoryAdaptiveCosts, disableSafeChecks, nodes, edges, mutations,
                   built, data>>

\* the loop body on a yielded path, down to the call of attemptConvertPath
BeginAttempt ==
    /\ exec.pc = "pulling"
    /\ search.pc = "yielded"
    /\ Len(exec.attempts) < Len(search.yielded)
    /\ LET path == SubstituteTarget(search.yielded[Len(search.yielded)].path, exec.to)
       IN  exec' = [exec EXCEPT !.pc = "attempting", !.path = path, !.i = 0,
                                !.cur = AttemptInput(exec),
                                !.cause = "",
                                !.given = <<>>,
                                !.leftover = exec.attempts # <<>> /\ exec.cur # exec.files,
                                !.attempts = Append(@, [path |-> path, status |-> "running",
                                                        cause |-> ""])]
    /\ UNCHANGED <<pq, registry>>
    /\ UNCHANGED <<handlers, supportedFormatCache, arrays, categoryChangeCosts,
                   categoryAdaptiveCosts, disableSafeChecks, nodes, edges, search,
                   mutations, built, data>>

\* a step of attemptConvertPath whose handler is not ready: handler.init()
StepInit ==
    /\ exec.pc = "attempting"
    /\ exec.i < Len(exec.path) - 1
    /\ LET name == exec.path[exec.i + 2].handler
           h == HandlerAt(handlers, name)
           call == <<name, "init", TRUE>>
       IN  /\ ~handlers[h].ready
           /\ \E initRejects \in BOOLEAN :
                IF initRejects
                THEN /\ exec' = FailStep(exec, StepOutcome(TRUE, TRUE, CHOOSE o \in DoConvertOutcomes : TRUE),
                                         "init", call)
                     /\ UNCHANGED <<handlers, supportedFormatCache>>
                ELSE /\ handlers' = [handlers EXCEPT ![h] = AfterInit(@)]
                     /\ supportedFormatCache' =
                            IF AfterInit(handlers[h]).hasFormats
                            THEN CacheSet(supportedFormatCache, name,
                                          AfterInit(handlers[h]).supportedFormats)
                            ELSE supportedFormatCache
                     /\ exec' = [exec EXCEPT !.calls = @ \cup {call}]
    /\ UNCHANGED <<pq, registry>>
    /\ UNCHANGED <<arrays, categoryChangeCosts, categoryAdaptiveCosts, disableSafeChecks,
                   nodes, edges, search, mutations, built, data>>

\* a step of attemptConvertPath whose handler is ready: handler.doConvert(...)
StepConvert ==
    /\ exec.pc = "attempting"
    /\ exec.i < Len(exec.path) - 1
    /\ LET name == exec.path[exec.i + 2].handler
           h == HandlerAt(handlers, name)
           hasCache == CacheHas(supportedFormatCache, name)
           inputFormat == IF hasCache
                          THEN FindInputFormat(CacheGet(supportedFormatCache, name),
                                               exec.path[exec.i + 1].format.mime)
                          ELSE -1
           call == <<name, "doConvert", inputFormat # -1>>
       IN  /\ handlers[h].ready
           /\ \E o \in DoConvertOutcomes :
                LET outcome == StepOutcome(FALSE, hasCache, o)
                IN  exec' = IF outcome = "next"
                            THEN [Given(exec, TRUE, exec.cur) EXCEPT
                                              !.i = @ + 1, !.cur = o.files,
                                              !.calls = @ \cup {call}]
                            ELSE FailStep(Given(exec, hasCache, exec.cur), outcome, StepCause(FALSE, hasCache, o),
                                          IF hasCache THEN call ELSE <<name, "none", TRUE>>)
    /\ UNCHANGED <<pq, registry>>
    /\ UNCHANGED <<handlers, supportedFormatCache, arrays, categoryChangeCosts,
                   categoryAdaptiveCosts, disableSafeChecks, nodes, edges, search,
                   mutations, built, data>>

\* attemptConvertPath returns { files, path }; on if (attempt) return attempt the
\* loop is left and the generator closed
FinishAttempt ==
    /\ exec.pc = "attempting"
    /\ exec.i >= Len(exec.path) - 1
    /\ LET pc == AfterAttempt(TRUE)
       IN  /\ exec' = [exec EXCEPT !.pc = pc,
                                   !.attempts = CloseAttempt(@, "succeeded", ""),
                                   !.result = IF pc = "returned"
                                              THEN [null |-> FALSE, files |-> exec.cur,
                                                    path |-> exec.path]
                                              ELSE @]
           /\ search' = IF pc = "returned" THEN [search EXCEPT !.pc = "closed"] ELSE search
    /\ UNCHANGED <<pq, registry>>
    /\ UNCHANGED <<handlers, supportedFormatCache, arrays, categoryChangeCosts,
                   categoryAdaptiveCosts, disableSafeChecks, nodes, edges, mutations,
                   built, data>>

\* the generator has ended: return null
ReturnNull ==
    /\ exec.pc = "pulling"
    /\ search.pc = "done"
    /\ exec' = [exec EXCEPT !.pc = "returned", !.result = NoResult]
    /\ UNCHANGED <<pq, registry>>
    /\ UNCHANGED <<handlers, supportedFormatCache, arrays, categoryChangeCosts,
                   categoryAdaptiveCosts, disableSafeChecks, nodes, edges, search,
                   mutations, built, data>>

NextExec ==
    \/ StartConvert
    \/ Pull
    \/ Iterate
    \/ BeginAttempt
    \/ StepInit
    \/ StepConvert
    \/ FinishAttempt
    \/ ReturnNull

SpecExec == InitExec /\ [][NextExec]_vars

-----------------------------------------------------------------------------
(* A PriorityQueue with a comparator, used through add and poll only.      *)

InitQueue ==
    /\ handlers = <<>>
    /\ supportedFormatCache = <<>>
    /\ arrays = InitArrays
    /\ categoryChangeCosts = DefaultCategoryChangeCosts
    /\ categoryAdaptiveCosts = DefaultCategoryAdaptiveCosts
    /\ disableSafeChecks = FALSE
    /\ nodes = <<>>
    /\ edges = <<>>
    /\ search = NoSearch
    /\ mutations = <<>>
    /\ built = NotBuilt
    /\ data = NoData
    /\ exec = NoExec
    /\ \E initialCapacity \in {1, DefaultCapacity} : pq = NewQueue(initialCapacity)
    /\ registry = NoRegistry

\* queue.add(item)
QueueAdd ==
    /\ pq.adds < MaxAdds
    /\ \E cost \in 0..MaxItemCost :
        LET item == Item(cost, pq.adds + 1)
            i == Len(pq.queue)
        IN  pq' = [pq EXCEPT !.queue = add(@, item),
                             !.capacity = IF i >= @ THEN grow(i) ELSE @,
                             !.adds = @ + 1,
                             !.live = @ \cup {item},
                             !.last = "add"]
    /\ UNCHANGED <<handlers, supportedFormatCache, arrays, categoryChangeCosts,
                   categoryAdaptiveCosts, disableSafeChecks, nodes, edges, search,
                   mutations, built, data, exec, registry>>

\* queue.poll()
QueuePoll ==
    /\ IF Len(pq.queue) = 0
       THEN pq' = [pq EXCEPT !.before = pq.live, !.last = "poll", !.null = TRUE]
       ELSE LET result == pq.queue[1]
            IN  pq' = [pq EXCEPT !.queue = poll(@),
                                 !.before = pq.live,
                                 !.live = @ \ {result},
                                 !.last = "poll",
                                 !.null = FALSE,
                                 !.result = result]
    /\ UNCHANGED <<handlers, supportedFormatCache, arrays, categoryChangeCosts,
                   categoryAdaptiveCosts, disableSafeChecks, nodes, edges, search,
                   mutations, built, data, exec, registry>>

NextQueue ==
    \/ QueueAdd
    \/ QueuePoll

SpecQueue == InitQueue /\ [][NextQueue]_vars

-----------------------------------------------------------------------------
(* The registry: normalizeMimeType, the format cache kept in localStorage, *)
(* loadCachedFormats, initializeFormats and the page that calls them.      *)

\* a switch one of whose results is a case label too
normalizeMimeTypeChained(mime) ==
    CASE mime = <<"audio", "x-wav">> -> <<"audio", "vnd.wave">>
      [] mime = <<"audio", "vnd.wave">> -> <<"audio", "wav">>
      [] OTHER -> mime

\* normalizeMimeType: the switch over the synonyms, a MIME being <<type, subtype>>
normalizeMimeType(mime) ==
    CASE mime = <<"audio", "x-wav">> -> <<"audio", "wav">>
      [] mime = <<"audio", "vnd.wave">> -> <<"audio", "wav">>
      [] mime = <<"application", "x-gzip">> -> <<"application", "gzip">>
      [] mime = <<"image", "x-icon">> -> <<"image", "vnd.microsoft.icon">>
      [] mime = <<"image", "vtf">> -> <<"image", "x-vtf">>
      [] mime = <<"image", "aseprite">> -> <<"image", "x-aseprite">>
      [] mime = <<"application", "x-aseprite">> -> <<"image", "x-aseprite">>
      [] mime = <<"image", "qoi">> -> <<"image", "x-qoi">>
      [] mime = <<"video", "bink">> -> <<"video", "vnd.radgamettools.bink">>
      [] mime = <<"video", "binka">> -> <<"audio", "vnd.radgamettools.bink">>
      [] mime = <<"video", "brstm">> -> <<"audio", "brstm">>
      [] mime = <<"audio", "x-quicktime">> -> <<"video", "quicktime">>
      [] mime = <<"audio", "x-flo">> -> <<"audio", "flo">>
      [] mime = <<"application", "x-flo">> -> <<"audio", "flo">>
      [] mime = <<"application", "x-lharc">> -> <<"application", "x-lzh-compressed">>
      [] mime = <<"application", "lha">> -> <<"application", "x-lzh-compressed">>
      [] mime = <<"application", "x-lha">> -> <<"application", "x-lzh-compressed">>
      [] mime = <<"application", "x-lzh">> -> <<"application", "x-lzh-compressed">>
      [] mime = <<"application", "x-mtga">> -> <<"application", "vnd.sqlite3">>
      [] mime = <<"audio", "x-flac">> -> <<"audio", "flac">>
      [] mime = <<"application", "font-sfnt">> -> <<"font", "ttf">>
      [] mime = <<"application", "x-font-ttf">> -> <<"font", "ttf">>
      [] mime = <<"application", "x-font-opentype">> -> <<"font", "otf">>
      [] mime = <<"application", "font-woff">> -> <<"font", "woff">>
      [] mime = <<"application", "x-font-woff">> -> <<"font", "woff">>
      [] mime = <<"application", "font-woff2">> -> <<"font", "woff2">>
      [] mime = <<"application", "x-font-woff2">> -> <<"font", "woff2">>
      [] mime = <<"application", "musicxml">> -> <<"application", "vnd.recordare.musicxml+xml">>
      [] mime = <<"application", "musicxml+xml">> -> <<"application", "vnd.recordare.musicxml+xml">>
      [] mime = <<"text", "mathml">> -> <<"application", "mathml+xml">>
      [] OTHER -> mime

\* the case labels of normalizeMimeType
SynonymKeys == {
    <<"audio", "x-wav">>, <<"audio", "vnd.wave">>, <<"application", "x-gzip">>,
    <<"image", "x-icon">>, <<"image", "vtf">>, <<"image", "aseprite">>,
    <<"application", "x-aseprite">>, <<"image", "qoi">>, <<"video", "bink">>,
    <<"video", "binka">>, <<"video", "brstm">>, <<"audio", "x-quicktime">>,
    <<"audio", "x-flo">>, <<"application", "x-flo">>, <<"application", "x-lharc">>,
    <<"application", "lha">>, <<"application", "x-lha">>, <<"application", "x-lzh">>,
    <<"application", "x-mtga">>, <<"audio", "x-flac">>, <<"application", "font-sfnt">>,
    <<"application", "x-font-ttf">>, <<"application", "x-font-opentype">>,
    <<"application", "font-woff">>, <<"application", "x-font-woff">>,
    <<"application", "font-woff2">>, <<"application", "x-font-woff2">>,
    <<"application", "musicxml">>, <<"application", "musicxml+xml">>,
    <<"text", "mathml">>}

\* the strings normalizeMimeType returns for its case labels
SynonymValues == {
    <<"audio", "wav">>, <<"application", "gzip">>, <<"image", "vnd.microsoft.icon">>,
    <<"image", "x-vtf">>, <<"image", "x-aseprite">>, <<"image", "x-qoi">>,
    <<"video", "vnd.radgamettools.bink">>, <<"audio", "vnd.radgamettools.bink">>,
    <<"audio", "brstm">>, <<"video", "quicktime">>, <<"audio", "flo">>,
    <<"application", "x-lzh-compressed">>, <<"application", "vnd.sqlite3">>,
    <<"audio", "flac">>, <<"font", "ttf">>, <<"font", "otf">>, <<"font", "woff">>,
    <<"font", "woff2">>, <<"application", "vnd.recordare.musicxml+xml">>,
    <<"application", "mathml+xml">>}

\* the empty string as a MIME
EmptyMime == <<"", "">>

\* file.type of the files dropped on the page: every case label, every value
\* returned, and strings outside the switch
FileTypes ==
    SynonymKeys \cup SynonymValues
    \cup {PNG.mime, MP3.mime, BIN.mime, EmptyMime, <<"audio", "X-WAV">>}

\* the extension a format definition carries
ExtensionOf(f) ==
    CASE f.format = "jpeg" -> "jpg"
      [] f.format = "text" -> "txt"
      [] OTHER -> f.format

\* the files dropped on the page: without an extension, or a PNG the browser
\* gives no type for
PageFiles ==
    {[ext |-> "", type |-> t] : t \in FileTypes}
    \cup {[ext |-> "PNG", type |-> EmptyMime]}

\* handlers/index.ts: one handler declaring its formats, one that learns them
\* in init()
PageHandlers == <<
    Handler("canvasToBlob", <<Supported(PNG, TRUE, TRUE, TRUE),
                              Supported(SVG, TRUE, TRUE, TRUE)>>),
    LazyHandler("ffmpeg") >>

\* a handler list in which a name occurs twice
TwinHandlers == <<
    Handler("canvasToBlob", <<Supported(PNG, TRUE, TRUE, TRUE),
                              Supported(JPEG, TRUE, TRUE, FALSE)>>),
    Handler("canvasToBlob", <<Supported(PNG, TRUE, FALSE, TRUE),
                              Supported(GIF, FALSE, TRUE, TRUE)>>) >>

\* JSON.stringify of a format: a category array is written out by value
FormatJSON(f, heap) ==
    [format |-> f.format, mime |-> f.mime,
     category |-> [kind |-> f.category.kind, tag |-> f.category.tag,
                   items |-> IF f.category.kind = "list" THEN heap[f.category.ref]
                             ELSE <<>>],
     from |-> f.from, to |-> f.to, lossless |-> f.lossless]

\* JSON.stringify(Array.from(supportedFormatCache.entries()))
Stringify(cache, heap) ==
    [k \in 1..Len(cache) |->
        [name |-> cache[k].name,
         formats |-> [i \in 1..Len(cache[k].formats) |->
                         FormatJSON(cache[k].formats[i], heap)]]]

\* the category arrays JSON.parse makes for a list of formats, in order
ListItems(formats) ==
    LET sel == SelectSeq(formats, LAMBDA f : f.category.kind = "list")
    IN  [k \in 1..Len(sel) |-> sel[k].category.items]

\* the category arrays JSON.parse makes for the entries of a cache, in order
RECURSIVE JsonArrays(_)
JsonArrays(json) ==
    IF json = <<>> THEN <<>>
    ELSE ListItems(Head(json).formats) \o JsonArrays(Tail(json))

\* JSON.parse of one entry, base arrays being on the heap before it: every
\* category array is a new array
ParseEntry(entry, base) ==
    [name |-> entry.name,
     formats |-> [i \in 1..Len(entry.formats) |->
        LET f == entry.formats[i]
        IN  [format |-> f.format, mime |-> f.mime,
             category |-> IF f.category.kind = "list"
                          THEN List(base + Len(ListItems(SubSeq(entry.formats, 1, i))))
                          ELSE [kind |-> f.category.kind, tag |-> f.category.tag,
                                ref |-> 0],
             from |-> f.from, to |-> f.to, lossless |-> f.lossless]]]

\* new Map(entries): entry by entry, a key met again keeps its place and takes
\* the later value
RECURSIVE NewMap(_, _)
NewMap(entries, cache) ==
    IF entries = <<>> THEN cache
    ELSE NewMap(Tail(entries), CacheSet(cache, Head(entries).name, Head(entries).formats))

\* new Map(JSON.parse(text)): the map, and the heap with the arrays parsed
JsonParse(json, heap) ==
    [cache |-> NewMap([k \in 1..Len(json) |->
                          ParseEntry(json[k],
                                     Len(heap) + Len(JsonArrays(SubSeq(json, 1, k - 1))))],
                      <<>>),
     heap |-> heap \o JsonArrays(json)]

\* what a reader of the graph finds in it: the vertices, and the edges with
\* their formats by value, their handler and their cost
GraphValue(ns, es, heap) ==
    [nodes |-> ns,
     edges |-> [k \in 1..Len(es) |->
                   [from |-> [format |-> FormatJSON(es[k].from.format, heap),
                              index |-> es[k].from.index],
                    to |-> [format |-> FormatJSON(es[k].to.format, heap),
                            index |-> es[k].to.index],
                    handler |-> es[k].handler,
                    cost |-> es[k].cost]]]

\* the loop body's pushes for one handler: an option per format with a MIME
PushOptions(allOptions, slot, name, formats) ==
    LET sel == SelectSeq(formats, LAMBDA f : f.mime # EmptyMime)
    IN  allOptions \o [i \in 1..Len(sel) |->
                          [format |-> sel[i], handler |-> name, slot |-> slot,
                           index |-> Len(allOptions) + i - 1]]

\* buildAllOptionsFromCache, from handler k on
RECURSIVE buildAllOptionsFromCache(_, _, _, _)
buildAllOptionsFromCache(allOptions, hs, cache, k) ==
    IF k > Len(hs) THEN allOptions
    ELSE buildAllOptionsFromCache(
            IF CacheHas(cache, hs[k].name)
            THEN PushOptions(allOptions, k, hs[k].name, CacheGet(cache, hs[k].name))
            ELSE allOptions,
            hs, cache, k + 1)

FORMAT_CACHE_VERSION == 1

\* localStorage without the key
NoStorage == [kind |-> "none", version |-> 0, cache |-> <<>>]

\* what localStorage may hold when the page loads: nothing, what an earlier
\* load of the same build saved, or an entry of another version
Storages(hs) ==
    LET inited == [k \in 1..Len(hs) |-> AfterInit(hs[k])]
        saved == Stringify(NewMap(CacheOf(inited), <<>>), InitArrays)
    IN  {NoStorage,
         [kind |-> "item", version |-> FORMAT_CACHE_VERSION, cache |-> saved],
         [kind |-> "item", version |-> 0, cache |-> saved]}

\* what fetch("cache.json") may give: a failure, a cache that knows the first
\* handler only, or the cache the build wrote for every handler
CacheFiles(hs) ==
    LET inited == [k \in 1..Len(hs) |-> AfterInit(hs[k])]
        full == Stringify(NewMap(CacheOf(inited), <<>>), InitArrays)
    IN  {[ok |-> FALSE, cache |-> <<>>],
         [ok |-> TRUE, cache |-> SubSeq(full, 1, 1)],
         [ok |-> TRUE, cache |-> full]}

\* loadCachedFormats: the value returned, and the module state it leaves
loadCachedFormats(storage, hs, tbl, heap) ==
    IF storage.kind = "none" \/ storage.version # FORMAT_CACHE_VERSION
    THEN [ok |-> FALSE, loaded |-> FALSE, cache |-> <<>>, heap |-> heap,
          allOptions |-> <<>>, nodes |-> <<>>, edges |-> <<>>]
    ELSE CHOOSE l \in
            {[ok |-> Len(allOptions) > 0, loaded |-> TRUE, cache |-> m.cache,
              heap |-> m.heap, allOptions |-> allOptions,
              nodes |-> g.nodes, edges |-> g.edges] :
                <<m, g, allOptions>> \in
                    {<<m, init(tbl, m.heap, m.cache, hs, FALSE),
                       buildAllOptionsFromCache(<<>>, hs, m.cache, 1)>> :
                        m \in {JsonParse(storage.cache, heap)}}} : TRUE

\* the handler loop of initializeFormats from handler k on, as far as it runs
\* without awaiting: to the first handler the cache misses, or to the end
RECURSIVE HandlerLoop(_, _, _, _)
HandlerLoop(allOptions, hs, cache, k) ==
    IF k > Len(hs) THEN [k |-> k, allOptions |-> allOptions]
    ELSE IF ~CacheHas(cache, hs[k].name) THEN [k |-> k, allOptions |-> allOptions]
    ELSE HandlerLoop(PushOptions(allOptions, k, hs[k].name, CacheGet(cache, hs[k].name)),
                     hs, cache, k + 1)

\* findFormatByExtension: the position in allOptions, 0 for null
findFormatByExtension(allOptions, ext) ==
    FindIndex(allOptions,
              LAMBDA opt : ToLowerCase(ExtensionOf(opt.format)) = ToLowerCase(ext)
                           /\ opt.format.from) + 1

\* findFormatByMime: the position in allOptions, 0 for null
findFormatByMime(allOptions, mime) ==
    LET normalized == normalizeMimeType(mime)
    IN  FindIndex(allOptions,
                  LAMBDA opt : opt.format.mime = normalized /\ opt.format.from) + 1

NoGraph == [done |-> FALSE, paired |-> FALSE, graph |-> <<>>, original |-> <<>>]

NoCall == [made |-> FALSE, built |-> FALSE, refreshing |-> FALSE]

NoLookup == [made |-> FALSE, mime |-> EmptyMime, normalized |-> EmptyMime]

\* the module state of a page just loaded
FreshRegistry(fresh, cacheFile, storage, saved, reloads) ==
    [pc |-> "boot", fresh |-> fresh, cacheFile |-> cacheFile, storage |-> storage,
     allOptions |-> <<>>, formats |-> <<>>, loading |-> TRUE, hadCache |-> FALSE,
     k |-> 0, reloads |-> reloads, saved |-> saved, rebuilt |-> NoGraph,
     call |-> NoCall, lookup |-> NoLookup]

InitRegistry ==
    /\ \E hs \in {PageHandlers, TwinHandlers} :
       \E cacheFile \in CacheFiles(hs), storage \in Storages(hs) :
        /\ handlers = hs
        /\ registry = FreshRegistry(hs, cacheFile, storage, NoGraph, 0)
    /\ supportedFormatCache = <<>>
    /\ arrays = InitArrays
    /\ categoryChangeCosts = DefaultCategoryChangeCosts
    /\ categoryAdaptiveCosts = DefaultCategoryAdaptiveCosts
    /\ disableSafeChecks = FALSE
    /\ nodes = <<>>
    /\ edges = <<>>
    /\ search = NoSearch
    /\ mutations = <<>>
    /\ built = NotBuilt
    /\ data = NoData
    /\ exec = NoExec
    /\ pq = NoQueue

\* the end of initializeFormats and the .then of the page: the graph built,
\* the cache saved, the format list shown
FinishInitialize(r, cache, allOptions, hs, heap) ==
    \E g \in {init(categoryChangeCosts, heap, cache, hs, FALSE)} :
        /\ nodes' = g.nodes
        /\ edges' = g.edges
        /\ built' = [done |-> TRUE, strictCategories |-> FALSE, mutations |-> 0]
        /\ registry' = [r EXCEPT
                !.pc = "ready",
                !.allOptions = allOptions,
                !.storage = [kind |-> "item", version |-> FORMAT_CACHE_VERSION,
                             cache |-> Stringify(cache, heap)],
                !.saved = [NoGraph EXCEPT !.done = TRUE,
                                          !.graph = GraphValue(g.nodes, g.edges, heap)],
                !.formats = allOptions,
                !.loading = FALSE]

\* the loop of initializeFormats goes on from handler k: to the next await of
\* an init(), or through to the end of initializeFormats
ContinueInitialize(r, cache, allOptions, hs, heap, k) ==
    \E l \in {HandlerLoop(allOptions, hs, cache, k)} :
        IF l.k > Len(hs)
        THEN FinishInitialize(r, cache, l.allOptions, hs, heap)
        ELSE /\ registry' = [r EXCEPT !.pc = "initing", !.k = l.k,
                                      !.allOptions = l.allOptions]
             /\ UNCHANGED <<nodes, edges, built>>

\* the page's effect: loadCachedFormats(), then initializeFormats() down to
\* its await of fetch
Mount ==
    /\ registry.pc = "boot"
    /\ \E l \in {loadCachedFormats(registry.storage, handlers, categoryChangeCosts, arrays)} :
        /\ arrays' = l.heap
        /\ registry' = [registry EXCEPT
                !.pc = "fetching",
                !.hadCache = l.ok,
                !.formats = IF l.ok THEN l.allOptions ELSE @,
                !.loading = ~l.ok,
                !.allOptions = <<>>,
                !.rebuilt = IF l.loaded
                            THEN [done |-> TRUE, paired |-> registry.saved.done,
                                  graph |-> GraphValue(l.nodes, l.edges, l.heap),
                                  original |-> registry.saved.graph]
                            ELSE NoGraph]
    /\ supportedFormatCache' = <<>>
    /\ nodes' = <<>>
    /\ edges' = <<>>
    /\ built' = NotBuilt
    /\ UNCHANGED <<handlers, categoryChangeCosts, categoryAdaptiveCosts, disableSafeChecks,
                   search, mutations, data, exec, pq>>

\* the fetch of cache.json settles; the handler loop runs to its first await
FetchDone ==
    /\ registry.pc = "fetching"
    /\ \E m \in {IF registry.cacheFile.ok
                  THEN JsonParse(registry.cacheFile.cache, arrays)
                  ELSE [cache |-> supportedFormatCache, heap |-> arrays]} :
        /\ supportedFormatCache' = m.cache
        /\ arrays' = m.heap
        /\ ContinueInitialize(registry, m.cache, registry.allOptions, handlers, m.heap, 1)
    /\ UNCHANGED <<handlers, categoryChangeCosts, categoryAdaptiveCosts, disableSafeChecks,
                   search, mutations, data, exec, pq>>

\* the init() of the handler the loop awaits settles; the loop goes on
InitDone ==
    /\ registry.pc = "initing"
    /\ \E initRejects \in BOOLEAN :
       \E h \in {AfterInit(handlers[registry.k])} :
       \E hs \in {IF initRejects THEN handlers ELSE [handlers EXCEPT ![registry.k] = h]} :
       \E cache \in {IF ~initRejects /\ h.hasFormats
                     THEN CacheSet(supportedFormatCache, h.name, h.supportedFormats)
                     ELSE supportedFormatCache} :
       \E allOptions \in {IF ~initRejects /\ CacheHas(cache, h.name)
                          THEN PushOptions(registry.allOptions, registry.k, h.name,
                                           CacheGet(cache, h.name))
                          ELSE registry.allOptions} :
        /\ handlers' = hs
        /\ supportedFormatCache' = cache
        /\ ContinueInitialize(registry, cache, allOptions, hs, arrays, registry.k + 1)
    /\ UNCHANGED <<arrays, categoryChangeCosts, categoryAdaptiveCosts, disableSafeChecks,
                   search, mutations, data, exec, pq>>

\* the page is loaded again: the module state is made anew, localStorage stays
Reload ==
    /\ registry.pc = "ready"
    /\ registry.reloads < MaxReloads
    /\ exec.pc \in {"idle", "returned"}
    /\ registry' = FreshRegistry(registry.fresh, registry.cacheFile, registry.storage,
                                 registry.saved, registry.reloads + 1)
    /\ handlers' = registry.fresh
    /\ supportedFormatCache' = <<>>
    /\ arrays' = InitArrays
    /\ nodes' = <<>>
    /\ edges' = <<>>
    /\ built' = NotBuilt
    /\ search' = NoSearch
    /\ exec' = NoExec
    /\ UNCHANGED <<categoryChangeCosts, categoryAdaptiveCosts, disableSafeChecks,
                   mutations, data, pq>>

\* the page converts a dropped file: the source format looked up, then
\* tryConvertByTraversing down to the generator's first yield or end
PageConvert ==
    /\ ~registry.loading
    /\ registry.pc # "boot"
    /\ exec.pc = "idle"
    /\ search.pc = "none"
    /\ ~registry.lookup.made
    /\ \E file \in PageFiles, files \in InputFiles, t \in 1..Len(registry.formats) :
       \E byExtension \in {findFormatByExtension(registry.allOptions, file.ext)} :
       \E f \in {IF byExtension # 0 THEN byExtension
                 ELSE findFormatByMime(registry.allOptions, file.type)} :
       \E lookup \in {IF byExtension # 0 THEN [NoLookup EXCEPT !.made = TRUE]
                      ELSE [made |-> TRUE, mime |-> file.type,
                            normalized |-> normalizeMimeType(file.type)]} :
        /\ registry.formats[t].format.to
        /\ registry.formats[t].slot = HandlerAt(handlers, registry.formats[t].handler)
        /\ IF f = 0
           THEN /\ registry' = [registry EXCEPT !.lookup = lookup]
                /\ UNCHANGED <<search, exec>>
           ELSE \E from \in {PathNode(registry.allOptions[f].handler,
                                      registry.allOptions[f].format)} :
                \E to \in {PathNode(registry.formats[t].handler,
                                    registry.formats[t].format)} :
                    /\ registry' = [registry EXCEPT
                            !.lookup = lookup,
                            !.call = [made |-> TRUE, built |-> built.done,
                                      refreshing |-> registry.pc # "ready"]]
                    /\ search' = SearchStep(NewSearch(from, to, moduleSimpleMode),
                                            nodes, edges, handlers,
                                            categoryAdaptiveCosts, arrays,
                                            disableSafeChecks)
                    /\ exec' = [NoExec EXCEPT !.pc = "pulling", !.from = from,
                                              !.to = to, !.files = files]
    /\ UNCHANGED <<handlers, supportedFormatCache, arrays, categoryChangeCosts,
                   categoryAdaptiveCosts, disableSafeChecks, nodes, edges, mutations,
                   built, data, pq>>

NextRegistry ==
    \/ Mount
    \/ FetchDone
    \/ InitDone
    \/ Reload
    \/ PageConvert
    \/ Pull
    \/ Iterate
    \/ BeginAttempt
    \/ StepInit
    \/ StepConvert
    \/ FinishAttempt
    \/ ReturnNull

SpecRegistry == InitRegistry /\ [][NextRegistry]_vars

-----------------------------------------------------------------------------
(* Properties of the search.                                               *)

IsPrefix(s, t) == Len(s) <= Len(t) /\ \A k \in 1..Len(s) : s[k] = t[k]

YieldedPaths(s) == [k \in 1..Len(s.yielded) |-> s.yielded[k].path]

\* the search is on the mock handlers, from PNG on canvasToBlob to MP3 on ffmpeg
MockImageToAudio ==
    /\ Names(handlers) = Names(MockHandlers)
    /\ search.from = PathNode("canvasToBlob", Supported(PNG, TRUE, TRUE, TRUE))
    /\ search.to = PathNode("ffmpeg", Supported(MP3, TRUE, TRUE, TRUE))
    /\ search.simpleMode

\* the records of the simple paths that go on from the record rec to the node
\* toIndex, their costs accumulated as the expansion accumulates them
RECURSIVE SimplePaths(_, _, _, _, _, _, _)
SimplePaths(ns, es, hs, adaptive, rec, toIndex, seen) ==
    IF rec.index = toIndex THEN {rec}
    ELSE LET out == ns[rec.index + 1].edges
             Usable == {k \in 1..Len(out) :
                          /\ es[out[k] + 1].to.index \notin seen
                          /\ FindIndex(hs, LAMBDA h : h.name = es[out[k] + 1].handler) # -1}
             Child(k) == LET edge == es[out[k] + 1]
                             path == Append(rec.path, PathNode(edge.handler, edge.to.format))
                         IN  [index |-> edge.to.index,
                              cost |-> rec.cost + edge.cost + calculateAdaptiveCost(adaptive, path),
                              path |-> path, visitedBorder |-> 0]
         IN  UNION {SimplePaths(ns, es, hs, adaptive, Child(k), toIndex,
                                seen \cup {es[out[k] + 1].to.index}) : k \in Usable}

\* the records of the paths the search s may yield: simple, from its source to
\* its target, passing the safe check and the rule on the target's handler
EligiblePaths(s) ==
    LET fromIndex == NodeIndex(nodes, s.from.format.mime)
        toIndex == NodeIndex(nodes, s.to.format.mime)
        all == IF fromIndex = -1 \/ toIndex = -1 THEN {}
               ELSE SimplePaths(nodes, edges, handlers, s.adaptiveAtStart,
                                [index |-> fromIndex, cost |-> 0, path |-> <<s.from>>,
                                 visitedBorder |-> 0],
                                toIndex, {fromIndex})
    IN  {r \in all :
            /\ disableSafeChecks \/ ~LossOfMedia(r.path, arrays)
            /\ \/ s.simpleMode
               \/ s.to.handler = ""
               \/ s.to.handler = r.path[Len(r.path)].handler}

\* C1: the first path searchPath yields has the least accumulated cost among the
\* eligible paths from the source to the target (simple, passing the safe
\* check and the rule on the target's handler), the costs not being negative
FirstYieldIsCheapest ==
    Len(search.yielded) >= 1 =>
        \A r \in EligiblePaths(search) : search.yielded[1].cost <= r.cost

\* C2: in one run of searchPath the record behind each yielded path costs at
\* least as much as the record behind every path yielded before it
YieldsInCostOrder ==
    \A i, j \in 1..Len(search.yielded) :
        i < j => search.yielded[i].cost <= search.yielded[j].cost

\* a run that has yielded three paths, the third costing more than the first
ThreeYieldsCostsRising ==
    /\ Len(search.yielded) >= 3
    /\ search.yielded[1].cost < search.yielded[3].cost

\* the category a node counts as: the first tag of a list, the tag, or, none
\* being declared, the major part of the MIME
PrimaryCategory(f, heap) ==
    CASE f.category.kind = "list" -> heap[f.category.ref][1]
      [] f.category.kind = "tag" -> f.category.tag
      [] OTHER -> f.mime[1]

ImageVideoAudio(path, heap) ==
    \E i \in 1..(Len(path) - 2) :
        /\ PrimaryCategory(path[i].format, heap) = "image"
        /\ PrimaryCategory(path[i + 1].format, heap) = "video"
        /\ PrimaryCategory(path[i + 2].format, heap) = "audio"

\* C3: with the safe checks enabled no yielded path has three consecutive nodes
\* whose primary categories are image, video, audio
NoImageVideoAudioYielded ==
    ~disableSafeChecks =>
        \A k \in 1..Len(search.yielded) : ~ImageVideoAudio(search.yielded[k].path, arrays)

\* C7: mock handlers, default tables, lenient build, simple mode, PNG on
\* canvasToBlob to MP3 on ffmpeg: the first yielded path has at least 3 nodes,
\* its first handler is canvasToBlob and its last is ffmpeg
MockFirstPath ==
    (/\ MockImageToAudio
     /\ mutations = <<>>
     /\ ~built.strictCategories
     /\ Len(search.yielded) >= 1) =>
        LET path == search.yielded[1].path
        IN  /\ Len(path) >= 3
            /\ path[1].handler = "canvasToBlob"
            /\ path[Len(path)].handler = "ffmpeg"

\* the mock search has yielded its first path on the default tables
MockFirstPathYielded ==
    /\ MockImageToAudio
    /\ mutations = <<>>
    /\ ~built.strictCategories
    /\ Len(search.yielded) = 1
    /\ Len(search.yielded[1].path) = 3

\* the paths searchPath yields on a graph built of hs with the default tables and
\* the safe checks enabled
DefaultYields(hs, from, to) ==
    LET g == init(DefaultCategoryChangeCosts, InitArrays, CacheOf(hs), hs, FALSE)
    IN  YieldedPaths(RunSearch(NewSearch(from, to, TRUE), g.nodes, g.edges, hs,
                               DefaultCategoryAdaptiveCosts, InitArrays, FALSE))

RemoveImageVideoAudio ==
    [op |-> "removeAdaptive", categories |-> <<"image", "video", "audio">>, cost |-> 0,
     handler |-> ""]

\* C8: after removeCategoryAdaptiveCost(["image","video","audio"]) and init() the
\* first path yielded for PNG (canvasToBlob) to MP3 (ffmpeg) on the mock
\* handlers differs from the first path yielded before the removal
RemovalChangesFirstPath ==
    (/\ MockImageToAudio
     /\ ~disableSafeChecks
     /\ mutations = <<RemoveImageVideoAudio>>
     /\ built.mutations = 1 /\ ~built.strictCategories
     /\ Len(search.yielded) >= 1) =>
        search.yielded[1].path # DefaultYields(handlers, search.from, search.to)[1]

\* the paths the generator yields when no table is touched after its start
UntouchedYields ==
    YieldedPaths(RunSearch(NewSearch(search.from, search.to, search.simpleMode),
                           nodes, edges, handlers, search.adaptiveAtStart, arrays,
                           disableSafeChecks))

\* C9: a cost-table call between two pulls of a generator changes neither the
\* paths the generator yields afterwards nor their order
MutationLeavesGeneratorAlone ==
    search.pc \notin {"none", "created"} =>
        /\ IsPrefix(YieldedPaths(search), UntouchedYields)
        /\ search.pc = "done" => YieldedPaths(search) = UntouchedYields

-----------------------------------------------------------------------------
(* Properties of the executor.                                             *)

\* C4: the executor attempts the yielded paths one at a time and in the order of
\* the yields, returns the result of the first attempt that succeeds without
\* another attempt, and returns null exactly when the generator has ended and
\* no attempt has succeeded
AttemptsInYieldOrder ==
    LET n == Len(exec.attempts)
    IN  /\ n <= Len(search.yielded)
        /\ \A k \in 1..n :
              exec.attempts[k].path = SubstituteTarget(search.yielded[k].path, exec.to)
        /\ \A k \in 1..(n - 1) : exec.attempts[k].status = "failed"
        /\ exec.pc = "attempting" =>
              /\ n = Len(search.yielded)
              /\ search.pc = "yielded"
              /\ exec.attempts[n].status = "running"
        /\ exec.pc = "returned" =>
              IF exec.result.null
              THEN /\ search.pc = "done"
                   /\ n = Len(search.yielded)
                   /\ \A k \in 1..n : exec.attempts[k].status = "failed"
              ELSE /\ n >= 1
                   /\ exec.attempts[n].status = "succeeded"
                   /\ exec.result.path = exec.attempts[n].path

\* the second attempt succeeded and its result was returned
SecondAttemptReturned ==
    /\ exec.pc = "returned"
    /\ ~exec.result.null
    /\ Len(exec.attempts) = 2

\* C5: when a step of an attempt fails (doConvert throws, an output file has no
\* bytes, init() rejects) the attempt returns null, no exception leaves
\* tryConvertByTraversing, and the executor goes on with the search: it returns
\* only when the generator has ended
FailedStepGoesOn ==
    /\ exec.pc # "crashed"
    /\ exec.cause \in {"throw", "empty", "init"} =>
          /\ exec.attempts[Len(exec.attempts)].status = "failed"
          /\ exec.pc \in {"pulling", "returned"}
          /\ exec.pc = "returned" => (exec.result.null /\ search.pc = "done")

\* doConvert threw in the first attempt, the next path is being attempted
NextPathAfterThrow ==
    /\ Len(exec.attempts) = 2
    /\ exec.attempts[1].cause = "throw"
    /\ exec.pc = "attempting"

AbsentMime(node) == NodeIndex(nodes, node.format.mime) = -1

\* C6: when the MIME of the source or of the target is no node of the graph,
\* searchPath yields no path and emits no event, and the executor returns null
\* without a call of a handler
AbsentMimeNoPath ==
    (search.pc # "none" /\ (AbsentMime(search.from) \/ AbsentMime(search.to))) =>
        /\ search.yielded = <<>>
        /\ search.events = <<>>
        /\ search.pc \in {"created", "done"}
        /\ exec.calls = {}
        /\ exec.attempts = <<>>
        /\ exec.pc \in {"pulling", "returned"}
        /\ exec.pc = "returned" => exec.result.null

\* the executor has returned from a conversion to a MIME that is no node
ReturnedOnAbsentTarget ==
    /\ exec.pc = "returned"
    /\ ~AbsentMime(search.from)
    /\ AbsentMime(search.to)

-----------------------------------------------------------------------------
(* Properties of getData.                                                  *)

\* what a reader of the graph finds: the nodes, the edges with the categories
\* of their formats, both tables
GraphView(ns, es, ccc, cac, heap) ==
    [nodes |-> ns,
     edges |-> [k \in 1..Len(es) |->
                    <<es[k],
                      AsArray(CategoryOrMime(es[k].from.format), heap),
                      AsArray(CategoryOrMime(es[k].to.format), heap)>>],
     categoryChangeCosts |-> ccc,
     categoryAdaptiveCosts |-> cac]

\* the paths the searches of the graph yield
LaterYields(ns, es, cac, heap) ==
    [q \in Sources(handlers) \X Targets(handlers) \X BOOLEAN |->
        YieldedPaths(RunSearch(NewSearch(q[1], q[2], q[3]), ns, es, handlers,
                               cac, heap, disableSafeChecks))]

\* C10: no write into the value getData returned, the category list of a format
\* of a returned edge included, changes the graph's nodes, edges or tables,
\* what a later getData returns, or the paths a later searchPath yields
GetDataSharesNothing ==
    [][(data.taken /\ data'.writes > data.writes) =>
            /\ GraphView(nodes', edges', categoryChangeCosts', categoryAdaptiveCosts', arrays')
                 = GraphView(nodes, edges, categoryChangeCosts, categoryAdaptiveCosts, arrays)
            /\ LaterYields(nodes', edges', categoryAdaptiveCosts', arrays')
                 = LaterYields(nodes, edges, categoryAdaptiveCosts, arrays)]_vars

-----------------------------------------------------------------------------
(* Properties of the built graph and of the cache.                         *)

HandlerNames(hs) == {hs[k].name : k \in 1..Len(hs)}

\* C11: after init every edge's handler is the name of a handler of the list
\* passed to init, whatever the cache holds
EdgeHandlersInList ==
    built.done => \A k \in 1..Len(edges) : edges[k].handler \in HandlerNames(handlers)

\* C11, as the code has it: every edge's handler is a key of the cache the graph
\* was built from, and the nodes a yielded path adds to its source all have a
\* handler of the list
EdgeHandlersInCache ==
    built.done =>
        /\ \A k \in 1..Len(edges) : CacheHas(supportedFormatCache, edges[k].handler)
        /\ \A y \in 1..Len(search.yielded) :
              \A i \in 2..Len(search.yielded[y].path) :
                  search.yielded[y].path[i].handler \in HandlerNames(handlers)

\* a path has been yielded on a graph that has an edge of a handler not in the list
YieldBesideUnlistedEdge ==
    /\ Len(search.yielded) >= 1
    /\ Len(search.yielded[1].path) >= 2
    /\ \E k \in 1..Len(edges) : edges[k].handler \notin HandlerNames(handlers)

\* C12: after init, the costs of the tables not being negative, the cost of
\* every edge is above zero, in lenient and in strict mode, also when the
\* handler's own list does not hold the MIME of the edge's target
EdgeCostsPositive ==
    \A k \in 1..Len(edges) : edges[k].cost > 0

\* a graph built in strict mode with an edge whose target MIME its handler's
\* own list does not hold
StrictEdgeOffHandlerList ==
    /\ built.done /\ built.strictCategories
    /\ \E k \in 1..Len(edges) :
          /\ edges[k].handler \in HandlerNames(handlers)
          /\ FormatPosition(handlers, edges[k].handler, edges[k].to.format.mime) = -1

\* C13: a write to the supported-format cache only fills a gap: the entry a
\* handler name has is never replaced by another list
CacheOnlyFillsGaps ==
    [][\A k \in 1..Len(supportedFormatCache) :
          \E j \in 1..Len(supportedFormatCache') :
              supportedFormatCache'[j] = supportedFormatCache[k]]_vars

\* C18: when the graph has a path eligible to be yielded, a searchPath run pulled
\* to its end has yielded at least one path
EligiblePathIsYielded ==
    (search.pc = "done" /\ EligiblePaths(search) # {}) => Len(search.yielded) >= 1

\* C20: doConvert is never called when the step's handler has no supported
\* format of the previous node's MIME with from = true
NoConvertWithoutInputFormat ==
    \A c \in exec.calls : c[2] = "doConvert" => c[3]

-----------------------------------------------------------------------------
(* Properties of the priority queue.                                       *)

\* C15: after any sequence of add and poll on a queue made with a comparator,
\* poll returns null when nothing added is left unpolled, and otherwise
\* removes and returns an element that the comparator puts before or level
\* with every element added and not yet polled.
PollReturnsMinimal ==
    pq.last = "poll" =>
        IF pq.before = {}
        THEN pq.null /\ pq.live = {}
        ELSE /\ ~pq.null
             /\ pq.result \in pq.before
             /\ \A x \in pq.before : comparator(pq.result, x) <= 0
             /\ pq.live = pq.before \ {pq.result}
             /\ {pq.queue[k] : k \in 1..Len(pq.queue)} = pq.live
             /\ Len(pq.queue) = Cardinality(pq.live)

\* a poll that had to choose between two children of the root, after an
\* earlier poll
PolledBelowTwoChildren ==
    /\ pq.last = "poll"
    /\ ~pq.null
    /\ Cardinality(pq.before) >= 3
    /\ pq.adds - Cardinality(pq.before) >= 1
    /\ \E x \in pq.live : x.cost > pq.result.cost


-----------------------------------------------------------------------------
(* Properties of the registry.                                             *)

\* C14: a graph rebuilt by loadCachedFormats from the cache saveFormatCache
\* wrote, with the same handler list and cost tables, has the vertices and the
\* edges, costs included, of the graph that was built when the cache was
\* saved, whichever handlers have been initialised by then.
RestoredGraphIsSavedGraph ==
    registry.rebuilt.paired => registry.rebuilt.graph = registry.rebuilt.original

\* C16: normalizeMimeType applied to what normalizeMimeType returned for a
\* file's type (a case label, a value returned, or a string outside the
\* switch) returns it unchanged.
NormalizeIsIdempotent ==
    registry.lookup.made =>
        normalizeMimeType(registry.lookup.normalized) = registry.lookup.normalized

\* findFormatByMime has normalised a type that is a case label of the switch
SynonymLookedUp ==
    /\ registry.lookup.made
    /\ registry.lookup.mime \in SynonymKeys
    /\ registry.lookup.normalized \in SynonymValues
    /\ exec.pc # "idle"

\* two handlers of the list have the same name
HasTwinNames(hs) == \E i, j \in 1..Len(hs) : i # j /\ hs[i].name = hs[j].name

\* C17: initializeFormats on a handler list in which two handlers have the
\* same name does not end with an option list and a built graph.
TwinNamesAbortBuild ==
    HasTwinNames(handlers) => ~(registry.pc = "ready" /\ built.done)

\* C19: when loadCachedFormats() has returned true, a tryConvertByTraversing
\* call finds a built graph, also while initializeFormats() is awaiting its
\* fetch or the init() of a handler.
ConvertSeesBuiltGraph ==
    (registry.hadCache /\ registry.call.made) => registry.call.built

-----------------------------------------------------------------------------
(* Properties of the adaptive cost and of the cost components of an edge.  *)

\* the categories of a path's nodes, each node counted by its primary category
PrimaryCategories(path, heap) ==
    [i \in 1..Len(path) |-> Tag(PrimaryCategory(path[i].format, heap))]

\* the sum of the entries that match the primary categories of the path
PrimaryAdaptiveCost(adaptive, path, heap) ==
    LET categoriesInPath == PrimaryCategories(path, heap)
        Term(c) == IF AdaptiveMatch(categoriesInPath, c.categories,
                                    Len(categoriesInPath) - 1, Len(c.categories) - 1)
                   THEN c.cost ELSE 0
        Sum[k \in 0..Len(adaptive)] == IF k = 0 THEN 0 ELSE Sum[k-1] + Term(adaptive[k])
    IN  Sum[Len(adaptive)]

\* C21: calculateAdaptiveCost on a path the search has built (a yielded path
\* or one of its prefixes) adds the entries that match the sequence of the
\* primary categories of the path's nodes: the first tag of a category list,
\* the tag of a single category, the major part of the MIME without category.
AdaptiveCostOnPrimaryCategories ==
    \A k \in 1..Len(search.yielded) :
        \A n \in 1..Len(search.yielded[k].path) :
            LET prefix == SubSeq(search.yielded[k].path, 1, n)
            IN  calculateAdaptiveCost(categoryAdaptiveCosts, prefix)
                    = PrimaryAdaptiveCost(categoryAdaptiveCosts, prefix, arrays)

\* the cost tables are those the graph was built from
TablesAsBuilt == built.done /\ built.mutations = Len(mutations)

\* the two formats of an edge share no category
NoSharedCategory(e, heap) ==
    LET fromCategories == AsArray(CategoryOrMime(e.from.format), heap)
        toCategories == AsArray(CategoryOrMime(e.to.format), heap)
    IN  ~\E i \in 1..Len(fromCategories) : Includes(toCategories, fromCategories[i])

\* the least cost among the entries for the two category lists that name the
\* handler, and those naming no handler whose (from, to) pair has no entry
\* naming the handler; the default when there is none
MinimumForHandler(tbl, fromCategories, toCategories, handler) ==
    LET Named(c) == \E j \in 1..Len(tbl) :
                        /\ tbl[j].from = c.from
                        /\ tbl[j].to = c.to
                        /\ tbl[j].handler = ToLowerCase(handler)
        costs == SelectSeq(tbl, LAMBDA c :
                    /\ Includes(fromCategories, c.from)
                    /\ Includes(toCategories, c.to)
                    /\ \/ c.handler = ToLowerCase(handler)
                       \/ (c.handler = "" /\ ~Named(c)))
    IN  IF Len(costs) = 0 THEN DEFAULT_CATEGORY_CHANGE_COST
        ELSE MinOf({costs[i].cost : i \in 1..Len(costs)})

\* C22: in a graph built lenient, the category component of an edge whose
\* formats share no category is the least cost among the entries naming the
\* edge's handler and the entries naming no handler for a (from, to) pair that
\* no entry naming the edge's handler covers, whatever add, update and remove
\* calls have made of the table.
GenericEntryYieldsToHandlerEntry ==
    (TablesAsBuilt /\ ~built.strictCategories) =>
        \A k \in 1..Len(edges) :
            NoSharedCategory(edges[k], arrays) =>
                CategoryChangeComponent(categoryChangeCosts, arrays, edges[k].from,
                                        edges[k].to, FALSE, edges[k].handler)
                    = MinimumForHandler(categoryChangeCosts,
                                        AsArray(CategoryOrMime(edges[k].from.format), arrays),
                                        AsArray(CategoryOrMime(edges[k].to.format), arrays),
                                        edges[k].handler)

\* C23: the cost of an edge whose handler is in the handler list is the cost
\* with the handler component at 0.2 times the position of that handler in
\* the list given to init(), whatever the order and the names of the cache.
HandlerComponentByListPosition ==
    TablesAsBuilt =>
        \A k \in 1..Len(edges) :
            Includes(Names(handlers), edges[k].handler) =>
                edges[k].cost = costFunction(categoryChangeCosts, arrays, handlers,
                                             edges[k].from, edges[k].to,
                                             built.strictCategories, edges[k].handler,
                                             IndexOf(Names(handlers), edges[k].handler))

\* C24: the format position that enters the cost of an edge is the position of
\* the target format's MIME in the supportedFormats of the edge's handler, and
\* 0 when the handler, its list or the MIME in the list is missing: it is
\* never negative.
FormatComponentNeverNegative ==
    built.done =>
        \A k \in 1..Len(edges) :
            LET p == FormatPosition(handlers, edges[k].handler, edges[k].to.format.mime)
                h == FindIndex(handlers, LAMBDA x : x.name = edges[k].handler)
                listed == /\ h # -1
                          /\ handlers[h + 1].hasFormats
                          /\ \E i \in 1..Len(handlers[h + 1].supportedFormats) :
                                handlers[h + 1].supportedFormats[i].mime
                                    = edges[k].to.format.mime
            IN  /\ p >= 0
                /\ ~listed => p = 0
                /\ listed =>
                     handlers[h + 1].supportedFormats[p + 1].mime = edges[k].to.format.mime

-----------------------------------------------------------------------------
(* Properties of the executor's attempts and of its result.                *)

\* C25: in every attempt of one tryConvertByTraversing call the first
\* doConvert is given the file list the call was given, never what a step
\* of an earlier, failed attempt has returned.
AttemptsStartFromInput ==
    exec.given # <<>> => exec.given[1] = exec.files

\* the first doConvert of an attempt has been called, after an earlier attempt
\* that failed beyond a step whose output differed from the input
SecondAttemptAfterPartialOne ==
    /\ Len(exec.attempts) >= 2
    /\ exec.leftover
    /\ Len(exec.given) >= 1

\* C26: a call given at least one file that returns a result returns at least
\* one file, and every file returned has bytes, whatever the handlers'
\* doConvert return.
ResultHoldsNonEmptyFiles ==
    (exec.pc = "returned" /\ Len(exec.files) >= 1 /\ ~exec.result.null) =>
        /\ Len(exec.result.files) >= 1
        /\ \A k \in 1..Len(exec.result.files) : exec.result.files[k] > 0

-----------------------------------------------------------------------------
(* Properties of the paths and of the events of one search.                *)

\* C27: a path searchPath yields starts with the source node, ends on a node
\* whose format has the target's MIME, and holds no MIME twice.
YieldedPathsAreSimple ==
    \A k \in 1..Len(search.yielded) :
        LET path == search.yielded[k].path
        IN  /\ Len(path) >= 1
            /\ path[1] = search.from
            /\ path[Len(path)].format.mime = search.to.format.mime
            /\ \A i, j \in 1..Len(path) :
                    path[i].format.mime = path[j].format.mime => i = j

\* a path of three nodes has been yielded on a graph where an edge leads
\* back to the source
LongPathYieldedOnCycle ==
    /\ \E k \in 1..Len(search.yielded) : Len(search.yielded[k].path) >= 3
    /\ \E k \in 1..Len(edges) :
            edges[k].to.format.mime = search.from.format.mime

\* C28: a searchPath generator that is pulled again and again comes to its end,
\* on every graph, those with cycles and parallel edges included.
SearchEnds == (search.pc = "created") ~> (search.pc = "done")

\* a search has ended after several expansions on a graph with an edge back
\* to the source and two edges between one pair of vertices
EndedOnCyclicGraph ==
    /\ search.pc = "done"
    /\ Len(search.visited) >= 3
    /\ \E k \in 1..Len(edges) : edges[k].to.format.mime = search.from.format.mime
    /\ \E j, k \in 1..Len(edges) :
            /\ j # k
            /\ edges[j].from.index = edges[k].from.index
            /\ edges[j].to.index = edges[k].to.index

\* the call converts between two nodes of one MIME, a vertex of the graph
SameMimeCall ==
    /\ exec.pc # "idle"
    /\ exec.from.format.mime = exec.to.format.mime
    /\ NodeIndex(nodes, exec.from.format.mime) # -1

\* C29: when source and target have one MIME and it is a vertex, searchPath in
\* simple mode yields the one-node path of the source node and no other, and
\* tryConvertByTraversing returns the input files as they are, without a call
\* of init() or doConvert.
SameMimeReturnsInput ==
    SameMimeCall =>
        /\ YieldedPaths(RunSearch(NewSearch(exec.from, exec.to, moduleSimpleMode), nodes,
                                  edges, handlers, categoryAdaptiveCosts, arrays,
                                  disableSafeChecks))
              = << <<exec.from>> >>
        /\ \A k \in 1..Len(search.yielded) : search.yielded[k].path = <<exec.from>>
        /\ \A k \in 1..Len(exec.attempts) : exec.attempts[k].status # "failed"
        /\ exec.calls = {}
        /\ exec.pc = "returned" =>
                /\ ~exec.result.null
                /\ exec.result.files = exec.files
                /\ Len(exec.result.path) = 1

\* a call between two nodes of one MIME has returned
SameMimeCallReturned ==
    /\ SameMimeCall
    /\ exec.pc = "returned"
    /\ exec.from # exec.to
    /\ exec.files # <<>>

\* C30: every record a search polls gives the listeners one event, "searching",
\* "found" or "skipped", with the record's path; a path that reached the target
\* and that the safety filter rejects gives "skipped".
EveryPollIsReported ==
    [][(/\ search.pc \in {"running", "yielded"}
        /\ Len(search.queue) > 0
        /\ search' # search)
       => /\ Len(search'.events) = Len(search.events) + 1
          /\ search'.events[Len(search'.events)].path = search.queue[1].path
          /\ search'.events[Len(search'.events)].state
                \in {"searching", "found", "skipped"}]_vars

====
